---- MODULE Spec2Model ----
(***************************************************************************)
(* osm-transform: the two-pass OSM transformer.                            *)
(*   - FirstPassHandler  (src/src/rewrite_handler.cpp:167-287)             *)
(*   - RewriteHandler    (src/src/rewrite_handler.cpp:10-148)              *)
(*   - LocationElevationService (src/unnamed/part_004)                     *)
(*   - the driver's second_pass (src/unnamed/part_003:193-273)             *)
(***************************************************************************)
EXTENDS Integers, Sequences, FiniteSets, TLC

(***************************************************************************)
(* Tags.  A key is the sequence of its ':'-separated segments, so that the *)
(* removal regex, which is anchored on ':' boundaries, can be computed.    *)
(* "ors:source" is <<"ors", "source">>, "highway" is <<"highway">>.        *)
(***************************************************************************)
Tag(k, v) == [k |-> k, v |-> v]

\* case folding of boost::regex::icase on the segments the model uses
to_lower(s) ==
    CASE s = "FIXME"  -> "fixme"
      [] s = "FixME"  -> "fixme"
      [] s = "Source" -> "source"
      [] s = "NOTE"   -> "note"
      [] s = "URL"    -> "url"
      [] OTHER        -> s

\* a mutant: the regex compiled without boost::regex::icase
regex_match_case_sensitive(key) ==
    \/ \E i \in 1..Len(key) : key[i] \in {"source", "note"}
    \/ Len(key) = 1 /\ key[1] \in {"url", "created_by", "fixme", "wikipedia"}

\* boost::regex_match(key, remove_tags_) for the default expression
\* (.*:)?source(:.*)?|(.*:)?note(:.*)?|url|created_by|fixme|wikipedia , icase:
\* a full match, so "source"/"note" must be a whole segment of the key and
\* the four plain words must be the whole key.
regex_match(key) ==
    \/ \E i \in 1..Len(key) : to_lower(key[i]) \in {"source", "note"}
    \/ Len(key) = 1 /\ to_lower(key[1]) \in {"url", "created_by", "fixme", "wikipedia"}

kInvalidatingTags ==
    { <<"building">>, <<"landuse">>, <<"boundary">>, <<"natural">>, <<"place">>,
      <<"waterway">>, <<"aeroway">>, <<"aviation">>, <<"military">>, <<"power">>,
      <<"communication">>, <<"man_made">> }

kNoElevationsKeys == { <<"bridge">>, <<"tunnel">>, <<"cutting">>, <<"indoor">> }

tag_validates(tag) ==
    IF tag.k = <<"highway">> THEN TRUE
    ELSE IF tag.k = <<"route">> THEN TRUE
    ELSE IF tag.k = <<"railway">> /\ tag.v = "platform" THEN TRUE
    ELSE IF tag.k = <<"public_transport">> /\ tag.v = "platform" THEN TRUE
    ELSE IF tag.k = <<"man_made">> /\ tag.v = "pier" THEN TRUE
    ELSE FALSE

accept_tag(tag) == ~ regex_match(tag.k)

\* the loop of has_no_relevant_tags: i is the position of the iterator
RECURSIVE has_no_relevant_tags_loop(_, _, _, _)
has_no_relevant_tags_loop(tags, i, no_tags_remain, has_invalidating_tags) ==
    IF i > Len(tags) THEN no_tags_remain \/ has_invalidating_tags
    ELSE IF accept_tag(tags[i])
         THEN IF tag_validates(tags[i]) THEN FALSE
              ELSE has_no_relevant_tags_loop(tags, i + 1, FALSE,
                       has_invalidating_tags \/ tags[i].k \in kInvalidatingTags)
         ELSE has_no_relevant_tags_loop(tags, i + 1, no_tags_remain, has_invalidating_tags)

\* a mutant: an invalidating key decides at once, as a validating tag does
RECURSIVE has_no_relevant_tags_early(_, _, _)
has_no_relevant_tags_early(tags, i, no_tags_remain) ==
    IF i > Len(tags) THEN no_tags_remain
    ELSE IF accept_tag(tags[i])
         THEN IF tag_validates(tags[i]) THEN FALSE
              ELSE IF tags[i].k \in kInvalidatingTags THEN TRUE
              ELSE has_no_relevant_tags_early(tags, i + 1, FALSE)
         ELSE has_no_relevant_tags_early(tags, i + 1, no_tags_remain)

has_no_relevant_tags_order_dependent(tags) == has_no_relevant_tags_early(tags, 1, TRUE)

has_no_relevant_tags(tags) == has_no_relevant_tags_loop(tags, 1, TRUE, FALSE)

\* the loop of is_no_elevation
RECURSIVE is_no_elevation_loop(_, _)
is_no_elevation_loop(tags, i) ==
    IF i > Len(tags) THEN FALSE
    ELSE IF tags[i].k \in kNoElevationsKeys /\ tags[i].v # "no" THEN TRUE
    ELSE is_no_elevation_loop(tags, i + 1)

\* a mutant: the value of the tag is not looked at
is_no_elevation_any_value(way) ==
    \E i \in 1..Len(way.tags) : way.tags[i].k \in kNoElevationsKeys

is_no_elevation(way) == is_no_elevation_loop(way.tags, 1)

\* a mutant: the size test of is_removable(Way) is lost
is_removable_way_tags_only(way) == has_no_relevant_tags(way.tags)

is_removable_way(way) == Len(way.refs) < 2 \/ has_no_relevant_tags(way.tags)

is_removable_rel(rel) == has_no_relevant_tags(rel.tags)

(***************************************************************************)
(* Bounds of the model and the input domains.                              *)
(***************************************************************************)
MaxTags == 2        \* length of the tag lists of the pure tag functions
MaxFirstRead == 2   \* entities the first pass reads

Range(f) == { f[i] : i \in DOMAIN f }

SeqsUpTo(S, n) == UNION { [1..k -> S] : k \in 0..n }

\* tags of the pure tag functions: every class the predicates distinguish
AllTags ==
    { Tag(<<"highway">>, "yes"), Tag(<<"route">>, "bus"),
      Tag(<<"railway">>, "platform"), Tag(<<"railway">>, "rail"),
      Tag(<<"man_made">>, "pier"), Tag(<<"man_made">>, "tower"),
      Tag(<<"building">>, "yes"), Tag(<<"name">>, "a"),
      Tag(<<"FIXME">>, "yes"), Tag(<<"ors", "source">>, "x"),
      Tag(<<"sources">>, "x") }

Highway == Tag(<<"highway">>, "yes")
Building == Tag(<<"building">>, "yes")
Fixme == Tag(<<"FIXME">>, "yes")

\* tag lists of the ways and relations of the input file: none, validating,
\* invalidating, both in either order, removed by the regex, no-elevation
\* keys with and without the value "no", a key no rule knows
WayTagLists ==
    { << >>, << Highway >>, << Building >>, << Building, Highway >>,
      << Highway, Building >>, << Fixme >>, << Fixme, Building >>,
      << Highway, Tag(<<"tunnel">>, "yes") >>, << Highway, Tag(<<"tunnel">>, "no") >>,
      << Tag(<<"bridge">>, "yes"), Building >>, << Tag(<<"name">>, "a") >> }

\* node refs of a way: none, one, two, three, a repeated node
RefLists == { << >>, << 0 >>, << 0, 1 >>, << 1, 2 >>, << 2, 1, 0 >>, << 1, 1 >> }

\* ways of the input file; ids are unique within a file
Ways ==
    [ id : {0, 1}, refs : RefLists, tags : WayTagLists ]
        \cup [ id : {-1}, refs : {<< 0, 1 >>}, tags : {<< Highway >>} ]

Member(t, r) == [ type |-> t, ref |-> r ]

MemberLists ==
    { << >>, << Member("node", 3) >>, << Member("way", 0) >>,
      << Member("way", 4), Member("node", 0), Member("relation", 5) >> }

Relations ==
    [ id : {0}, members : MemberLists,
      tags : { << >>, << Tag(<<"route">>, "bus") >>, << Building >>, << Fixme >> } ]
        \cup [ id : {-1}, members : {<< Member("node", 3) >>},
               tags : {<< Tag(<<"route">>, "bus") >>} ]

(***************************************************************************)
(* Locations and the elevation service.  Coordinates are whole numbers of  *)
(* one raster step and every location of the model lies on one parallel    *)
(* (lat 0), so that lengths and sample positions are exact.                *)
(***************************************************************************)
kNoDataValue == -32768
SyntheticStart == 1000000000
area_id_multiple == 65535
grid_size == 64800

Location(lon, lat) == [ lon |-> lon, lat |-> lat ]

\* osmium::Location{}: both coordinates undefined
undefined_location == [ lon |-> 2147483647, lat |-> 2147483647 ]

location_valid(l) == l # undefined_location

Min(a, b) == IF a < b THEN a ELSE b
Max(a, b) == IF a > b THEN a ELSE b
Abs(a) == IF a < 0 THEN 0 - a ELSE a

\* the rasters on disk, by file name: one row of pixels, first pixel at origin
Geotiff(origin, pixel_width, pixels) ==
    [ origin |-> origin, pixel_width |-> pixel_width, pixels |-> pixels,
      raster_has_no_data |-> TRUE, raster_no_data_value |-> -32768 ]

\* two SRTM tiles, the second without data at the one location it contains, a
\* finer custom tile between them, and a coarser GMTED tile that covers all
Geotiffs ==
    [ f \in { "srtmdata/srtm_38_03.tif", "srtmdata/srtm_39_03.tif", "tiffs/custom.tif",
              "gmteddata/50N000E_gmted.tif" } |->
        CASE f = "srtmdata/srtm_38_03.tif" -> Geotiff(-1, 1, << 5, 0, 4 >>)
          [] f = "srtmdata/srtm_39_03.tif" -> Geotiff(2, 1, << 6, -32768 >>)
          [] f = "tiffs/custom.tif" -> Geotiff(0, 1, << 30, 31 >>)
          [] f = "gmteddata/50N000E_gmted.tif" -> Geotiff(-2, 2, << 10, 12, 14 >>) ]

\* LocationElevationService::load: one rtree entry per raster, its box the
\* raster's extent and its prio the pixel width
load(svc, filenames) ==
    [ svc EXCEPT
        !.rtree = { [ filename |-> f,
                      prio |-> Geotiffs[f].pixel_width,
                      box  |-> [ min |-> Geotiffs[f].origin,
                                 max |-> Geotiffs[f].origin
                                         + Len(Geotiffs[f].pixels) * Geotiffs[f].pixel_width ] ]
                    : f \in filenames },
        !.initialized = TRUE ]

LocationElevationService ==
    [ initialized |-> FALSE, rtree |-> {}, found_custom |-> 0, found_srtm |-> 0,
      found_gmted |-> 0 ]

Geotiff_elevation(g, lng, lat) ==
    LET x == (lng - g.origin) \div g.pixel_width
        max_x == Len(g.pixels)
    IN  IF x < -1 \/ x > max_x THEN kNoDataValue
        ELSE LET cx == Max(Min(x, max_x - 1), 0)
                 pixel == g.pixels[cx + 1]
             IN  IF g.raster_has_no_data /\ pixel <= g.raster_no_data_value
                 THEN kNoDataValue
                 ELSE pixel

\* bgi::contains(point): the boundary of a box does not contain
box_contains(b, l) == b.min < l.lon /\ l.lon < b.max

\* bgi::intersects(box): boxes that touch intersect
box_intersects(b, lo, hi) == ~ (hi < b.min \/ lo > b.max)

starts_with_srtm(filename) ==
    filename \in { "srtmdata/srtm_38_03.tif", "srtmdata/srtm_39_03.tif" }
contains_gmted(filename) == filename \in { "gmteddata/50N000E_gmted.tif" }

\* a mutant: the coarsest tile is put first
front_entries_coarsest(svc, l) ==
    LET query_result == { e \in svc.rtree : box_contains(e.box, l) }
    IN  { e \in query_result : \A o \in query_result : e.prio >= o.prio }

\* the entries that std::sort by prio may leave at the front of the tiles whose
\* box contains l: the order of entries of equal prio is unspecified
front_entries(svc, l) ==
    LET query_result == { e \in svc.rtree : box_contains(e.box, l) }
    IN  { e \in query_result : \A o \in query_result : e.prio <= o.prio }

\* a mutant: a lookup that finds no data is counted too
elevation_front_counts_no_data(svc, front, l, count) ==
    LET ele == Geotiff_elevation(Geotiffs[front.filename], l.lon, l.lat)
    IN  [ ele |-> ele,
          svc |-> IF count
                  THEN IF starts_with_srtm(front.filename)
                       THEN [ svc EXCEPT !.found_srtm = @ + 1 ]
                       ELSE IF contains_gmted(front.filename)
                       THEN [ svc EXCEPT !.found_gmted = @ + 1 ]
                       ELSE [ svc EXCEPT !.found_custom = @ + 1 ]
                  ELSE svc ]

\* the rest of elevation() once load_tiff has handed back the raster of the
\* front entry: [ele, svc], svc with its counters
elevation_front(svc, front, l, count) ==
    LET ele == Geotiff_elevation(Geotiffs[front.filename], l.lon, l.lat)
    IN  [ ele |-> ele,
          svc |-> IF ele # kNoDataValue /\ count
                  THEN IF starts_with_srtm(front.filename)
                       THEN [ svc EXCEPT !.found_srtm = @ + 1 ]
                       ELSE IF contains_gmted(front.filename)
                       THEN [ svc EXCEPT !.found_gmted = @ + 1 ]
                       ELSE [ svc EXCEPT !.found_custom = @ + 1 ]
                  ELSE svc ]

\* LocationElevationService::elevation over tiles that are on disk and of which
\* no two of one prio contain l: [ele, svc]
elevation(svc, l, count) ==
    IF front_entries(svc, l) = {} THEN [ ele |-> kNoDataValue, svc |-> svc ]
    ELSE elevation_front(svc, CHOOSE e \in front_entries(svc, l) : TRUE, l, count)

LocationElevation(svc, l) == [ location |-> l, ele |-> elevation(svc, l, FALSE).ele ]

\* LocationElevationService::interpolate: [throws, les], les the set of the
\* vectors the call can return.  from.lon() throws on an undefined location.
\* A segment of length 0 divides 0 by 0 and converts the NaN to int, which is
\* undefined: the loop runs not at all (INT_MIN) or once, at Location(NaN, NaN),
\* whose conversion to fixed point is undefined too and gives (0, 0) where the
\* loop runs.
LocationElevationService_interpolate(svc, from, to) ==
    IF ~ location_valid(from) \/ ~ location_valid(to)
    THEN [ throws |-> TRUE, les |-> {} ]
    ELSE LET lo == Min(from.lon, to.lon)
             hi == Max(from.lon, to.lon)
             query_result == { e \in svc.rtree : box_intersects(e.box, lo, hi) }
         IN  IF query_result = {} THEN [ throws |-> FALSE, les |-> { << >> } ]
             ELSE LET step_width == (CHOOSE e \in query_result :
                                        \A o \in query_result : e.prio <= o.prio).prio
                      delta_x == to.lon - from.lon
                      length == Abs(delta_x)
                  IN  IF length = 0
                      THEN [ throws |-> FALSE,
                             les |-> { << LocationElevation(svc, to) >>,
                                       << LocationElevation(svc, Location(0, 0)),
                                          LocationElevation(svc, to) >> } ]
                      ELSE LET nx == delta_x \div length
                               sx == nx * step_width
                               steps == length \div step_width
                           IN  [ throws |-> FALSE,
                                 les |-> { [ s \in 1..(steps + 2) |->
                                     IF s = steps + 2
                                     THEN LocationElevation(svc, to)
                                     ELSE LocationElevation(svc,
                                              Location(from.lon + sx * (s - 1), from.lat)) ] } ]

(***************************************************************************)
(* The raster cache of the elevation service.  disk maps the files that     *)
(* exist to their size and to whether GDAL opens them; cache maps a cached  *)
(* file to whether its Geotiff holds a dataset.                             *)
(***************************************************************************)
\* the members cache_, lru_, mem_size_, cache_limit_ and tile_size_ after the
\* constructor, over the files of a disk
TileCache(cache_limit, disk) ==
    [ open |-> TRUE, cache_limit |-> cache_limit, cache |-> << >>, lru |-> << >>,
      mem_size |-> 0, tile_size |-> << >>, disk |-> disk ]

\* a function without the key k
erase(f, k) == [ x \in DOMAIN f \ {k} |-> f[x] ]

\* a function with the key k set
insert(f, k, v) == [ x \in DOMAIN f \cup {k} |-> IF x = k THEN v ELSE f[x] ]

\* a mutant: the list is left as it is
lru_remove_nothing(lru, filename) == lru

\* std::list::remove
lru_remove(lru, filename) == SelectSeq(lru, LAMBDA f : f # filename)

\* while (mem_size_ > 0 && mem_size_ + tile_size_[filename] > cache_limit_):
\* the back of lru_ is dropped.  mem_size_ > 0 implies that lru_ is not empty.
evict(c, filesize) ==
    LET RECURSIVE loop(_)
        loop(d) ==
            IF d.mem_size > 0 /\ d.mem_size + filesize > d.cache_limit
            THEN LET to_remove == d.lru[Len(d.lru)]
                 IN  loop([ d EXCEPT !.mem_size = @ - d.tile_size[to_remove],
                                     !.cache = erase(@, to_remove),
                                     !.lru = SubSeq(@, 1, Len(@) - 1) ])
            ELSE d
    IN  loop(c)

\* LocationElevationService::load_tiff: [outcome, cache].  The outcome is
\* "filesystem_error" where std::filesystem::file_size throws on a file that
\* is not there, "nullptr" where the null handle is returned, "no_dataset"
\* where the Geotiff that is returned failed to open its file, else "ok".
load_tiff(c, filename) ==
    IF filename \notin DOMAIN c.tile_size /\ filename \notin DOMAIN c.disk
    THEN [ outcome |-> "filesystem_error", cache |-> c ]
    ELSE LET c1 == IF filename \in DOMAIN c.tile_size THEN c
                   ELSE [ c EXCEPT !.tile_size = insert(@, filename, c.disk[filename].size) ]
         IN  IF filename \in DOMAIN c1.cache
             THEN [ outcome |-> IF c1.cache[filename] THEN "ok" ELSE "no_dataset",
                    cache |-> [ c1 EXCEPT !.lru = << filename >> \o lru_remove(@, filename) ] ]
             ELSE IF filename \notin DOMAIN c1.disk
             THEN [ outcome |-> "nullptr", cache |-> c1 ]
             ELSE LET c2 == evict(c1, c1.tile_size[filename])
                  IN  [ outcome |-> IF c1.disk[filename].opens THEN "ok" ELSE "no_dataset",
                        cache |-> [ c2 EXCEPT
                            !.cache = insert(@, filename, c1.disk[filename].opens),
                            !.mem_size = @ + c1.tile_size[filename],
                            !.lru = << filename >> \o @ ] ]

\* LocationElevationService::elevation with the cache: the set of its outcomes
\* [outcome, ele, cache].  geo_tiff->elevation on the null handle, and on a
\* Geotiff without dataset, whose transformation_ was never set, is undefined:
\* the call crashes or returns, and what it returns is any value, of which the
\* model keeps NODATA and a value of the raster.
elevation_cached(svc, c, l) ==
    IF front_entries(svc, l) = {}
    THEN { [ outcome |-> "returns", ele |-> kNoDataValue, cache |-> c ] }
    ELSE UNION { LET t == load_tiff(c, front.filename)
                 IN  IF t.outcome = "filesystem_error"
                     THEN { [ outcome |-> "throws", ele |-> kNoDataValue, cache |-> t.cache ] }
                     ELSE IF t.outcome = "ok"
                     THEN { [ outcome |-> "returns",
                              ele |-> elevation_front(svc, front, l, FALSE).ele,
                              cache |-> t.cache ] }
                     ELSE { [ outcome |-> "crashes", ele |-> kNoDataValue, cache |-> t.cache ],
                            [ outcome |-> "returns", ele |-> kNoDataValue, cache |-> t.cache ],
                            [ outcome |-> "returns",
                              ele |-> elevation_front(svc, front, l, FALSE).ele,
                              cache |-> t.cache ] }
                 : front \in front_entries(svc, l) }

(***************************************************************************)
(* The area service.  A coordinate is a whole number of units, CoordUnits  *)
(* of them to the degree; a geometry is the set of the lattice locations   *)
(* it covers, its boundary included.                                       *)
(***************************************************************************)
CoordUnits == 2    \* units of a coordinate per degree
MaxAreaRows == 2   \* rows of the area CSV

\* (int) of a double: the fraction is cut off, towards zero
int_cast(c) == IF c >= 0 THEN c \div CoordUnits ELSE 0 - ((0 - c) \div CoordUnits)

\* grid_id_t grid_index = ((int) l.lat() + 90) * 360 + ((int) l.lon() + 180),
\* narrowed to std::uint16_t
grid_index(l) == ((int_cast(l.lat) + 90) * 360 + (int_cast(l.lon) + 180)) % 65536

\* grid_[grid_index]: the unit-degree box of the constructor
grid(i) ==
    LET box_lon == (i % 360) - 180
        box_lat == (i \div 360) - 90
    IN  { Location(x, y) : x \in (box_lon * CoordUnits)..((box_lon + 1) * CoordUnits),
                           y \in (box_lat * CoordUnits)..((box_lat + 1) * CoordUnits) }

\* the boxes of grid_ that a geometry of the model can intersect: those of
\* longitudes -2 .. 2 and latitudes -1 .. 1 degrees
GridWindow == { (box_lat + 90) * 360 + (box_lon + 180) : box_lat \in -1..0, box_lon \in -2..1 }

\* the service as its constructor leaves it; mapping_index_ is 0 and
\* mapping_area_ is empty outside the window, too
LocationAreaService ==
    [ initialized |-> FALSE,
      mapping_index |-> [ i \in GridWindow |-> 0 ],
      mapping_area |-> [ i \in GridWindow |-> << >> ],
      mapping_id |-> << >> ]

mapping_index_at(svc, i) == IF i \in DOMAIN svc.mapping_index THEN svc.mapping_index[i] ELSE 0

equal_range(svc, i) == IF i \in DOMAIN svc.mapping_area THEN svc.mapping_area[i] ELSE << >>

\* OGRGeometry::Intersects, Contains and Intersection on lattice geometries
Intersects(g, h) == g \cap h # {}
Contains(g, h) == h \subseteq g
Intersection(g, h) == g \cap h

\* add_area_to_mapping_index: every box of the grid that the geometry
\* intersects takes the id when the geometry contains it, and otherwise is
\* flagged multiple and gets an entry (id, intersection) in mapping_area_
add_area_to_mapping_index(svc, id, geometry) ==
    [ svc EXCEPT
        !.mapping_index = [ i \in GridWindow |->
            IF Intersects(grid(i), geometry)
            THEN IF Contains(geometry, grid(i)) THEN id ELSE area_id_multiple
            ELSE svc.mapping_index[i] ],
        !.mapping_area = [ i \in GridWindow |->
            IF Intersects(grid(i), geometry) /\ ~ Contains(geometry, grid(i))
            THEN Append(svc.mapping_area[i],
                        [ id |-> id, geo |-> Intersection(geometry, grid(i)) ])
            ELSE svc.mapping_area[i] ] ]

\* the state of load's loop over the CSV: [index, valid_rows]
load_begin(file_has_header) ==
    [ index |-> IF file_has_header THEN 0 ELSE 1, valid_rows |-> 0 ]

\* one pass of load's loop over a row [columns_ok, geo_ok, id, geo]:
\* [svc, st]; index and valid_rows are std::uint16_t
load_row(svc, st, row) ==
    LET index == IF row.columns_ok /\ row.geo_ok /\ st.index = 0 THEN 1 ELSE st.index
        valid == row.columns_ok /\ row.geo_ok
    IN  [ svc |-> IF valid
                  THEN add_area_to_mapping_index(
                           [ svc EXCEPT !.mapping_id =
                               [ k \in DOMAIN svc.mapping_id \cup {index} |->
                                   IF k = index THEN row.id ELSE svc.mapping_id[k] ] ],
                           index, row.geo)
                  ELSE svc,
          st  |-> [ index |-> (index + 1) % 65536,
                    valid_rows |-> IF valid THEN (st.valid_rows + 1) % 65536
                                   ELSE st.valid_rows ] ]

\* the end of load: the service is initialized when a row was valid
load_end(svc, st) == [ svc EXCEPT !.initialized = st.valid_rows > 0 ]

\* a rectangle of the lattice
Rect(lon_lo, lon_hi, lat_lo, lat_hi) ==
    { Location(x, y) : x \in lon_lo..lon_hi, y \in lat_lo..lat_hi }

AreaRow(id, geo) == [ columns_ok |-> TRUE, geo_ok |-> TRUE, id |-> id, geo |-> geo ]

RECURSIVE load_rows(_, _, _, _)
load_rows(svc, st, rows, i) ==
    IF i > Len(rows) THEN load_end(svc, st)
    ELSE LET r == load_row(svc, st, rows[i])
         IN  load_rows(r.svc, r.st, rows, i + 1)

\* the mapping of the rewrite pass: two areas that both cover the locations of
\* longitude 3 and 4 units at latitudes 0 to 2 units
LoadedAreaService ==
    load_rows(LocationAreaService, load_begin(FALSE),
              << AreaRow("DEU", Rect(3, 4, 0, 2)), AreaRow("FRA", Rect(3, 4, 0, 2)) >>, 1)

\* a mutant: every entry of a box flagged multiple is reported
get_area_all_entries(svc, l) ==
    IF ~ svc.initialized THEN << >>
    ELSE LET idx == mapping_index_at(svc, grid_index(l))
         IN  IF idx = 0 THEN << >>
             ELSE IF idx = area_id_multiple
             THEN LET range == equal_range(svc, grid_index(l))
                  IN  [ i \in 1..Len(range) |-> svc.mapping_id[range[i].id] ]
             ELSE << svc.mapping_id[idx] >>

get_area(svc, l) ==
    IF ~ svc.initialized THEN << >>
    ELSE LET idx == mapping_index_at(svc, grid_index(l))
         IN  IF idx = 0 THEN << >>
             ELSE IF idx = area_id_multiple
             THEN LET range == equal_range(svc, grid_index(l))
                      hits == SelectSeq(range, LAMBDA a : Contains(a.geo, {l}))
                  IN  [ i \in 1..Len(hits) |-> svc.mapping_id[hits[i].id] ]
             ELSE << svc.mapping_id[idx] >>

\* get_area as its caller sees it: the set of the lists it can return.  A
\* grid index of grid_size_ or more reads mapping_index_ behind its end, which
\* is undefined: the value read is 0, the id of an area, an id without a name,
\* for which mapping_id_[] makes the empty name, or the flag for multiple, for
\* which mapping_area_ has no entry.
get_area_outcomes(svc, l) ==
    IF ~ svc.initialized \/ grid_index(l) < grid_size THEN { get_area(svc, l) }
    ELSE { << >>, << "" >> } \cup { << svc.mapping_id[id] >> : id \in DOMAIN svc.mapping_id }

\* boost::algorithm::join(countries, ",")
join(countries) ==
    CASE countries = << "DEU" >> -> "DEU"
      [] countries = << "FRA" >> -> "FRA"
      [] countries = << "DEU", "FRA" >> -> "DEU,FRA"

\* std::to_string(double) on the elevations of the rasters
std_to_string(d) ==
    CASE d = 0 -> "0.000000"
      [] d = 4 -> "4.000000"
      [] d = 5 -> "5.000000"
      [] d = 6 -> "6.000000"
      [] d = 10 -> "10.000000"
      [] d = 12 -> "12.000000"
      [] d = 14 -> "14.000000"
      [] d = 30 -> "30.000000"
      [] d = 31 -> "31.000000"

(***************************************************************************)
(* RewriteHandler.  An entity is a record with its type; `synthetic` marks *)
(* the nodes that newNode built, so that a record of an output file can be *)
(* told from an input node that happens to carry the same id.              *)
(***************************************************************************)
\* copy_tags(parent, tags): ways and relations
copy_tags(tl) == SelectSeq(tl, LAMBDA t : ~ regex_match(t.k))

\* a mutant: a country tag of the input survives the enrichment
copy_tags_node_keeps_country(tl, ele, countries, add_elevation) ==
    SelectSeq(tl, LAMBDA t : /\ ~ regex_match(t.k)
                             /\ ~ (t.k = <<"ele">> /\ add_elevation))
        \o (IF ele > kNoDataValue THEN << Tag(<<"ele">>, std_to_string(ele)) >> ELSE << >>)
        \o (IF countries # << >> THEN << Tag(<<"country">>, join(countries)) >> ELSE << >>)

\* a mutant: an ele tag of the input survives the enrichment
copy_tags_node_keeps_ele(tl, ele, countries, add_elevation) ==
    SelectSeq(tl, LAMBDA t : ~ regex_match(t.k) /\ t.k # <<"country">>)
        \o (IF ele > kNoDataValue THEN << Tag(<<"ele">>, std_to_string(ele)) >> ELSE << >>)
        \o (IF countries # << >> THEN << Tag(<<"country">>, join(countries)) >> ELSE << >>)

\* copy_tags(parent, tags, ele, countries): nodes
copy_tags_node(tl, ele, countries, add_elevation) ==
    SelectSeq(tl, LAMBDA t : /\ ~ regex_match(t.k)
                             /\ ~ (t.k = <<"country">> \/ (t.k = <<"ele">> /\ add_elevation)))
        \o (IF ele > kNoDataValue THEN << Tag(<<"ele">>, std_to_string(ele)) >> ELSE << >>)
        \o (IF countries # << >> THEN << Tag(<<"country">>, join(countries)) >> ELSE << >>)

\* get_noexcept: the undefined location for an id that was never set
get_node_location(index, id) ==
    IF id \in DOMAIN index THEN index[id] ELSE undefined_location

newNode(id, le) ==
    [ type |-> "node", id |-> id, synthetic |-> TRUE, location |-> le.location,
      tags |-> << Tag(<<"ele">>, std_to_string(le.ele)) >> ]

\* a mutant: the id counter is read but not advanced
take_node_id_stuck(next) == [ id |-> next, next |-> next ]

\* new_node_id = next_node_id_++
take_node_id(next) == [ id |-> next, next |-> next + 1 ]

\* a mutant: the difference is compared with its sign
exceeds_threshold_signed(ele, before_ele, after_ele, threshold2) ==
    2 * ele - (before_ele + after_ele) >= threshold2

\* the test on an interior sample, on doubled values:
\* abs(le.ele - (before_ele + after_ele) / 2) >= interpolate_threshold_
exceeds_threshold(ele, before_ele, after_ele, threshold2) ==
    Abs(2 * ele - (before_ele + after_ele)) >= threshold2

\* the inner loop of interpolate over les; index counts from 0 as in the code,
\* acc = [refs, nodes, next] is what the builders and the counter hold
RECURSIVE interpolate_samples(_, _, _, _)
interpolate_samples(les, index, acc, threshold2) ==
    IF ~ (index < Len(les) - 1) THEN acc
    ELSE LET before_ele == les[index].ele
             after_ele == les[index + 2].ele
             le == les[index + 1]
         IN  IF le.ele = kNoDataValue
             THEN interpolate_samples(les, index + 1, acc, threshold2)
             ELSE IF exceeds_threshold(le.ele, before_ele, after_ele, threshold2)
             THEN LET n == take_node_id(acc.next)
                  IN  interpolate_samples(les, index + 1,
                          [ refs  |-> Append(acc.refs, n.id),
                            nodes |-> Append(acc.nodes, newNode(n.id, le)),
                            next  |-> n.next ], threshold2)
             ELSE interpolate_samples(les, index + 1, acc, threshold2)

\* the outer loop of interpolate from way.nodes()[i] on (i counts from 0): the
\* set of its outcomes [ok, refs, nodes, next].  ok is FALSE where the call
\* throws: std::out_of_range from les.at(0) on an empty les, whose size() - 1
\* wraps around, and osmium::invalid_location from an undefined location.  The
\* nodes built before the throw are committed.
RECURSIVE interpolate_segments(_, _, _, _, _, _, _)
interpolate_segments(svc, index, refs, i, from_location, acc, threshold2) ==
    IF ~ (i < Len(refs)) THEN { [ ok |-> TRUE, refs |-> acc.refs, nodes |-> acc.nodes,
                                   next |-> acc.next ] }
    ELSE LET to == refs[i + 1]
             to_location == get_node_location(index, to)
             r == LocationElevationService_interpolate(svc, from_location, to_location)
             thrown == [ ok |-> FALSE, refs |-> acc.refs, nodes |-> acc.nodes,
                         next |-> acc.next ]
         IN  IF r.throws THEN { thrown }
             ELSE UNION { IF les = << >> THEN { thrown }
                          ELSE LET a == interpolate_samples(les, 1, acc, threshold2)
                               IN  interpolate_segments(svc, index, refs, i + 1, to_location,
                                       [ a EXCEPT !.refs = Append(@, to) ], threshold2)
                          : les \in r.les }

RewriteHandler_interpolate(svc, index, refs, next, threshold2) ==
    interpolate_segments(svc, index, refs, 1, get_node_location(index, refs[1]),
        [ refs |-> << refs[1] >>, nodes |-> << >>, next |-> next ], threshold2)

\* a mutant: the no_elevation set is not consulted
add_refs_ignores_no_elevation(cfg, svc, ne_ways, index, way, next) ==
    IF cfg.interpolate /\ svc.initialized
    THEN RewriteHandler_interpolate(svc, index, way.refs, next, cfg.interpolate_threshold2)
    ELSE { [ ok |-> TRUE, refs |-> way.refs, nodes |-> << >>, next |-> next ] }

\* add_refs: the set of its outcomes
add_refs(cfg, svc, ne_ways, index, way, next) ==
    IF cfg.interpolate /\ svc.initialized /\ way.id \notin ne_ways
    THEN RewriteHandler_interpolate(svc, index, way.refs, next, cfg.interpolate_threshold2)
    ELSE { [ ok |-> TRUE, refs |-> way.refs, nodes |-> << >>, next |-> next ] }

(***************************************************************************)
(* State.                                                                  *)
(***************************************************************************)
VARIABLES
    tags,           \* pure tag functions: the tag list handed in
    result,         \* pure tag functions: << >>, then << the value returned >>
    valid_ids,      \* nwr_array of IdSetDense: [nodes, ways, relations]
    no_elevation,   \* nwr_array of IdSetSmall: [nodes, ways]
    ways_seen,      \* history: the ways the first pass has read, by id
    rels_seen,      \* history: the relations the first pass has read, by id
    config,         \* Config: [interpolate, add_elevation, interpolate_threshold2]
    location_elevation, \* LocationElevationService: [initialized, rtree, found_*]
    location_area,  \* LocationAreaService: [initialized, mapping_index, ...]
    location_index, \* node id -> Location, the ids set so far
    next_node_id,   \* RewriteHandler::next_node_id_
    stats,          \* RewriteHandler's node counters
    output_buffer,  \* second_pass: output_buffer of the current input buffer
    node_output_buffer, \* second_pass: node_output_buffer (interpolate only)
    wr_file,        \* the records of <stem>.ors.wr.pbf
    n_file,         \* the records of <stem>.ors.n.pbf
    output,         \* the records of <stem>.ors.pbf
    temp_files,     \* the temporary files that exist on disk
    last,           \* the last handler call: its input and what it emitted
    reads,          \* entities the reader has delivered
    applied,        \* entities of the current input buffer that were applied
    pc,             \* position of second_pass
    query,          \* service calls: the arguments of the last call
    area_load,      \* LocationAreaService::load: [index, valid_rows, rows, open]
    tile_cache      \* LocationElevationService: cache_, lru_, mem_size_, tile_size_

tag_vars == << tags, result >>
call_vars == << query, area_load, tile_cache >>
first_vars == << valid_ids, no_elevation, ways_seen, rels_seen >>
service_vars == << config, location_elevation, location_area >>
handler_vars == << location_index, next_node_id, stats >>
file_vars == << output_buffer, node_output_buffer, wr_file, n_file, output, temp_files >>
rewrite_vars == << service_vars, handler_vars, file_vars, last, reads, applied, pc >>

vars == << tag_vars, first_vars, rewrite_vars, call_vars >>

\* no service call is under way
CallsIdle ==
    /\ query = [ op |-> "none" ]
    /\ area_load = [ open |-> FALSE ]
    /\ tile_cache = [ open |-> FALSE ]

\* the rewrite pass has not been constructed
RewriteIdle ==
    /\ config = [ interpolate |-> FALSE, add_elevation |-> FALSE,
                  interpolate_threshold2 |-> 1 ]
    /\ location_elevation = LocationElevationService
    /\ location_area = LocationAreaService
    /\ location_index = << >>
    /\ next_node_id = 0
    /\ stats = [ nodes_with_elevation |-> 0, nodes_with_elevation_not_found |-> 0,
                 nodes_added_by_interpolation |-> 0 ]
    /\ output_buffer = << >>
    /\ node_output_buffer = << >>
    /\ wr_file = << >>
    /\ n_file = << >>
    /\ output = << >>
    /\ temp_files = {}
    /\ last = [ input |-> [ type |-> "none" ], out |-> << >> ]
    /\ reads = 0
    /\ applied = 0
    /\ pc = "idle"

NoIds == [ nodes |-> {}, ways |-> {}, relations |-> {} ]
NoElevationNone == [ nodes |-> {}, ways |-> {} ]

(***************************************************************************)
(* FirstPassHandler.  The handler state is h = [valid_ids, no_elevation].  *)
(***************************************************************************)
\* a mutant: the way is marked, its nodes are not
set_no_elevation_way_only(ne, way) ==
    [ nodes |-> ne.nodes, ways |-> ne.ways \cup {way.id} ]

\* the body of if (is_no_elevation(way)): the refs, then the way
set_no_elevation(ne, way) ==
    [ nodes |-> ne.nodes \cup Range(way.refs), ways |-> ne.ways \cup {way.id} ]

\* a mutant: the way id is set before, and instead of, the node refs
FirstPassHandler_way_no_nodes(h, way) ==
    IF way.id < 0 THEN h
    ELSE IF is_removable_way(way) THEN h
    ELSE [ h EXCEPT !.valid_ids.ways = @ \cup {way.id} ]

FirstPassHandler_way(h, way) ==
    IF way.id < 0 THEN h
    ELSE IF is_removable_way(way) THEN h
    ELSE LET v1 == [ h.valid_ids EXCEPT !.nodes = @ \cup Range(way.refs) ]
             ne == IF is_no_elevation(way) THEN set_no_elevation(h.no_elevation, way)
                   ELSE h.no_elevation
         IN  [ valid_ids    |-> [ v1 EXCEPT !.ways = @ \cup {way.id} ],
               no_elevation |-> ne ]

\* a mutant: the ways among the members are retained as well
FirstPassHandler_relation_with_ways(h, rel) ==
    IF rel.id < 0 THEN h
    ELSE IF is_removable_rel(rel) THEN h
    ELSE [ h EXCEPT
             !.valid_ids.nodes = @ \cup
                 { rel.members[i].ref : i \in { j \in 1..Len(rel.members) :
                                                  rel.members[j].type = "node" } },
             !.valid_ids.ways = @ \cup
                 { rel.members[i].ref : i \in { j \in 1..Len(rel.members) :
                                                  rel.members[j].type = "way" } },
             !.valid_ids.relations = @ \cup {rel.id} ]

FirstPassHandler_relation(h, rel) ==
    IF rel.id < 0 THEN h
    ELSE IF is_removable_rel(rel) THEN h
    ELSE [ h EXCEPT
             !.valid_ids.nodes = @ \cup
                 { rel.members[i].ref : i \in { j \in 1..Len(rel.members) :
                                                  rel.members[j].type = "node" } },
             !.valid_ids.relations = @ \cup {rel.id} ]

Handler == [ valid_ids |-> valid_ids, no_elevation |-> no_elevation ]

\* first_pass reads a way: osmium::apply calls FirstPassHandler::way
FirstWay ==
    \E way \in Ways :
        /\ Cardinality(DOMAIN ways_seen) + Cardinality(DOMAIN rels_seen) < MaxFirstRead
        /\ way.id \notin DOMAIN ways_seen
        /\ LET h == FirstPassHandler_way(Handler, way)
           IN  /\ valid_ids' = h.valid_ids
               /\ no_elevation' = h.no_elevation
        /\ ways_seen' = [ i \in DOMAIN ways_seen \cup {way.id} |->
                             IF i = way.id THEN way ELSE ways_seen[i] ]
        /\ UNCHANGED << rels_seen, tag_vars, call_vars, rewrite_vars >>

\* first_pass reads a relation: osmium::apply calls FirstPassHandler::relation
FirstRelation ==
    \E rel \in Relations :
        /\ Cardinality(DOMAIN ways_seen) + Cardinality(DOMAIN rels_seen) < MaxFirstRead
        /\ rel.id \notin DOMAIN rels_seen
        /\ LET h == FirstPassHandler_relation(Handler, rel)
           IN  /\ valid_ids' = h.valid_ids
               /\ no_elevation' = h.no_elevation
        /\ rels_seen' = [ i \in DOMAIN rels_seen \cup {rel.id} |->
                             IF i = rel.id THEN rel ELSE rels_seen[i] ]
        /\ UNCHANGED << ways_seen, tag_vars, call_vars, rewrite_vars >>

FirstInit ==
    /\ valid_ids = NoIds
    /\ no_elevation = NoElevationNone
    /\ ways_seen = << >>
    /\ rels_seen = << >>
    /\ tags = << >>
    /\ result = << >>
    /\ RewriteIdle
    /\ CallsIdle

FirstNext == FirstWay \/ FirstRelation

SpecFirst == FirstInit /\ [][FirstNext]_vars

(***************************************************************************)
(* The pure tag functions, applied to every tag list of the bound.         *)
(***************************************************************************)
TagsInit ==
    /\ tags \in SeqsUpTo(AllTags, MaxTags)
    /\ result = << >>
    /\ valid_ids = NoIds
    /\ no_elevation = NoElevationNone
    /\ ways_seen = << >>
    /\ rels_seen = << >>
    /\ RewriteIdle
    /\ CallsIdle

ApplyHasNoRelevantTags ==
    /\ result = << >>
    /\ result' = << has_no_relevant_tags(tags) >>
    /\ UNCHANGED << tags, call_vars, first_vars, rewrite_vars >>

TagsNext == ApplyHasNoRelevantTags

SpecTags == TagsInit /\ [][TagsNext]_vars

\* the record of an entity in a buffer or a file: its type and id
Record(e) == [ type |-> e.type, id |-> e.id, synthetic |-> e.synthetic ]

Records(es) == [ i \in 1..Len(es) |-> Record(es[i]) ]

\* RewriteHandler::node: what it emits and the handler state it leaves
RewriteHandler_node(cfg, esvc, asvc, ids, index, st, node) ==
    IF node.id < 0 \/ node.id \notin ids.nodes
    THEN [ out |-> << >>, esvc |-> esvc, index |-> index, stats |-> st ]
    ELSE LET enrich == cfg.add_elevation /\ esvc.initialized
             e == IF enrich THEN elevation(esvc, node.location, TRUE)
                  ELSE [ ele |-> kNoDataValue, svc |-> esvc ]
             st1 == IF ~ enrich THEN st
                    ELSE IF e.ele # kNoDataValue
                    THEN [ st EXCEPT !.nodes_with_elevation = @ + 1 ]
                    ELSE [ st EXCEPT !.nodes_with_elevation_not_found = @ + 1 ]
             countries == get_area(asvc, node.location)
         IN  [ out |-> << [ type |-> "node", id |-> node.id, synthetic |-> FALSE,
                            location |-> node.location,
                            tags |-> copy_tags_node(node.tags, e.ele, countries,
                                                    cfg.add_elevation) ] >>,
               esvc |-> e.svc,
               index |-> IF cfg.interpolate
                         THEN [ i \in DOMAIN index \cup {node.id} |->
                                  IF i = node.id THEN node.location ELSE index[i] ]
                         ELSE index,
               stats |-> st1 ]

\* RewriteHandler::way: the set of its outcomes [ok, nodes, way, next]
RewriteHandler_way(cfg, esvc, ids, ne, index, next, way) ==
    IF way.id < 0 \/ way.id \notin ids.ways
    THEN { [ ok |-> TRUE, nodes |-> << >>, way |-> << >>, next |-> next ] }
    ELSE { [ ok |-> r.ok, nodes |-> r.nodes, next |-> r.next,
             way |-> IF r.ok
                     THEN << [ type |-> "way", id |-> way.id, synthetic |-> FALSE,
                               refs |-> r.refs, tags |-> copy_tags(way.tags) ] >>
                     ELSE << >> ]
           : r \in add_refs(cfg, esvc, ne.ways, index, way, next) }

\* RewriteHandler::relation: what it emits
RewriteHandler_relation(ids, rel) ==
    IF rel.id < 0 \/ rel.id \notin ids.relations THEN << >>
    ELSE << [ type |-> "relation", id |-> rel.id, synthetic |-> FALSE,
              members |-> rel.members, tags |-> copy_tags(rel.tags) ] >>

(***************************************************************************)
(* The input of the rewrite pass.  The id sets are those a first pass      *)
(* leaves, and the ways and relations of the file are those that the first *)
(* pass, reading them, would have treated that way.                        *)
(***************************************************************************)
MaxRewriteRead == 4  \* entities the rewrite pass reads
BufferSize == 2      \* entities of one input buffer of the reader

SecondPassIds ==
    [ valid_ids |-> [ nodes |-> {0, 1, SyntheticStart}, ways |-> {0, 1, 3},
                      relations |-> {0} ],
      no_elevation |-> [ nodes |-> {0, 1, SyntheticStart}, ways |-> {1} ] ]

NodeTagLists ==
    { << >>,
      << Tag(<<"ele">>, "7"), Tag(<<"FixME">>, "x") >>,
      << Tag(<<"country">>, "XX"), Tag(<<"name">>, "a") >>,
      << Tag(<<"name">>, "a"), Tag(<<"note", "check">>, "x"), Tag(<<"ele">>, "7") >> }

Nodes ==
    { [ type |-> "node", id |-> 0, location |-> Location(x, 0), tags |-> t ]
        : x \in {0, 3}, t \in NodeTagLists }
    \cup { [ type |-> "node", id |-> 1, location |-> Location(x, 0), tags |-> << >> ]
             : x \in {1, 3} }
    \cup { [ type |-> "node", id |-> i, location |-> Location(1, 0), tags |-> << >> ]
             : i \in {SyntheticStart, 2, -1} }

RewriteWays ==
    { [ type |-> "way", id |-> w.id, refs |-> w.refs, tags |-> w.tags ] :
        w \in { x \in [ id : {0, 1, 2, 3},
                        refs : { << 0, 1, 0 >>, << 1, SyntheticStart >> },
                        tags : { << Highway >>,
                                 << Fixme, Highway, Tag(<<"name">>, "a") >>,
                                 << Highway, Tag(<<"tunnel">>, "yes") >>,
                                 << Building >> } ] :
                  /\ FirstPassHandler_way(SecondPassIds, x) = SecondPassIds
                  /\ x.id \in SecondPassIds.valid_ids.ways <=> ~ is_removable_way(x)
                  /\ x.id \in SecondPassIds.no_elevation.ways <=>
                         (~ is_removable_way(x) /\ is_no_elevation(x)) } }
    \cup { [ type |-> "way", id |-> -1, refs |-> << 0, 1 >>, tags |-> << Highway >> ] }

RewriteRelations ==
    { [ type |-> "relation", id |-> r.id, members |-> r.members, tags |-> r.tags ] :
        r \in { x \in [ id : {0, 1},
                        members : { << Member("node", 0), Member("way", 0),
                                       Member("relation", 7) >>,
                                    << Member("way", 5) >> },
                        tags : { << Tag(<<"route">>, "bus"), Tag(<<"ors", "source">>, "x") >>,
                                 << Building >> } ] :
                  /\ FirstPassHandler_relation(SecondPassIds, x) = SecondPassIds
                  /\ x.id \in SecondPassIds.valid_ids.relations <=> ~ is_removable_rel(x) } }
    \cup { [ type |-> "relation", id |-> -1, members |-> << Member("way", 5) >>,
             tags |-> << Tag(<<"route">>, "bus") >> ] }

\* the configurations of second_pass, and the one of the handler's own tests
\* (add_elevation_ left false over a loaded elevation service)
Configurations ==
    { [ interpolate |-> TRUE,  add_elevation |-> TRUE,  geo_tiffs |-> TRUE,  area_mapping |-> TRUE ],
      [ interpolate |-> TRUE,  add_elevation |-> FALSE, geo_tiffs |-> FALSE, area_mapping |-> FALSE ],
      [ interpolate |-> TRUE,  add_elevation |-> FALSE, geo_tiffs |-> TRUE,  area_mapping |-> FALSE ],
      [ interpolate |-> FALSE, add_elevation |-> TRUE,  geo_tiffs |-> TRUE,  area_mapping |-> TRUE ],
      [ interpolate |-> FALSE, add_elevation |-> TRUE,  geo_tiffs |-> TRUE,  area_mapping |-> FALSE ],
      [ interpolate |-> FALSE, add_elevation |-> FALSE, geo_tiffs |-> FALSE, area_mapping |-> FALSE ] }

\* the geotiff folders of a configuration: the one SRTM tile, or, where no
\* interpolation and no area mapping is asked for, the other three tiles
geo_tiff_folders(c) ==
    IF ~ c.interpolate /\ ~ c.area_mapping
    THEN { "srtmdata/srtm_39_03.tif", "tiffs/custom.tif", "gmteddata/50N000E_gmted.tif" }
    ELSE { "srtmdata/srtm_38_03.tif" }

(***************************************************************************)
(* second_pass.                                                            *)
(***************************************************************************)
Ids == [ nodes |-> valid_ids.nodes, ways |-> valid_ids.ways,
         relations |-> valid_ids.relations ]

Reading == pc = "read" /\ applied < BufferSize /\ reads < MaxRewriteRead

\* the handler's buffers take what one call committed
Commit(nodes, others) ==
    IF config.interpolate
    THEN /\ node_output_buffer' = node_output_buffer \o Records(nodes)
         /\ output_buffer' = output_buffer \o Records(others)
    ELSE /\ output_buffer' = output_buffer \o Records(nodes) \o Records(others)
         /\ UNCHANGED node_output_buffer

\* osmium::apply calls RewriteHandler::node
RewriteNode ==
    \E node \in Nodes :
        /\ Reading
        /\ LET r == RewriteHandler_node(config, location_elevation, location_area, Ids,
                                        location_index, stats, node)
           IN  /\ location_elevation' = r.esvc
               /\ location_index' = r.index
               /\ stats' = r.stats
               /\ Commit(r.out, << >>)
               /\ last' = [ input |-> node, out |-> r.out ]
        /\ reads' = reads + 1
        /\ applied' = applied + 1
        /\ UNCHANGED << tag_vars, call_vars, first_vars, config, location_area, next_node_id,
                        wr_file, n_file, output, temp_files, pc >>

\* osmium::apply calls RewriteHandler::way; an exception ends the program
RewriteWay ==
    \E way \in RewriteWays :
        /\ Reading
        /\ \E r \in RewriteHandler_way(config, location_elevation, Ids, no_elevation,
                                       location_index, next_node_id, way) :
               /\ next_node_id' = r.next
               /\ stats' = [ stats EXCEPT !.nodes_added_by_interpolation = @ + Len(r.nodes) ]
               /\ Commit(r.nodes, r.way)
               /\ last' = [ input |-> way, out |-> r.nodes \o r.way ]
               /\ pc' = IF r.ok THEN pc ELSE "failed"
        /\ reads' = reads + 1
        /\ applied' = applied + 1
        /\ UNCHANGED << tag_vars, call_vars, first_vars, service_vars, location_index,
                        wr_file, n_file, output, temp_files >>

\* osmium::apply calls RewriteHandler::relation
RewriteRelation ==
    \E rel \in RewriteRelations :
        /\ Reading
        /\ LET out == RewriteHandler_relation(Ids, rel)
           IN  /\ Commit(<< >>, out)
               /\ last' = [ input |-> rel, out |-> out ]
        /\ reads' = reads + 1
        /\ applied' = applied + 1
        /\ UNCHANGED << tag_vars, call_vars, first_vars, service_vars, handler_vars,
                        wr_file, n_file, output, temp_files, pc >>

\* the end of the loop body: the buffers go to the writers.  A full input
\* buffer is followed by another read; a buffer that is not full was the last.
EndBuffer ==
    /\ pc = "read"
    /\ applied > 0
    /\ IF config.interpolate
       THEN /\ wr_file' = wr_file \o output_buffer
            /\ n_file' = n_file \o node_output_buffer
            /\ UNCHANGED output
       ELSE /\ output' = output \o output_buffer
            /\ UNCHANGED << wr_file, n_file >>
    /\ output_buffer' = << >>
    /\ node_output_buffer' = << >>
    /\ applied' = 0
    /\ pc' = IF applied = BufferSize THEN "read" ELSE "eof"
    /\ UNCHANGED << tag_vars, call_vars, first_vars, service_vars, handler_vars, temp_files,
                    last, reads >>

\* reader.read() returns no buffer: the writers of the loop are closed
EndOfInput ==
    /\ pc = "eof" \/ (pc = "read" /\ applied = 0)
    /\ pc' = IF config.interpolate THEN "copy_n" ELSE "done"
    /\ UNCHANGED << tag_vars, call_vars, first_vars, service_vars, handler_vars, file_vars,
                    last, reads, applied >>

\* a mutant: the file is not removed
std_remove_fails(files, name) == files

std_remove(files, name) == files \ {name}

\* copy(n_output, writer); std::remove(n_output)
CopyNodes ==
    /\ pc = "copy_n"
    /\ output' = output \o n_file
    /\ n_file' = << >>
    /\ temp_files' = std_remove(temp_files, "n")
    /\ pc' = "copy_wr"
    /\ UNCHANGED << tag_vars, call_vars, first_vars, service_vars, handler_vars, output_buffer,
                    node_output_buffer, wr_file, last, reads, applied >>

\* copy(wr_output, writer); std::remove(wr_output); writer.close()
CopyWaysRelations ==
    /\ pc = "copy_wr"
    /\ output' = output \o wr_file
    /\ wr_file' = << >>
    /\ temp_files' = std_remove(temp_files, "wr")
    /\ pc' = "done"
    /\ UNCHANGED << tag_vars, call_vars, first_vars, service_vars, handler_vars, output_buffer,
                    node_output_buffer, n_file, last, reads, applied >>

Init ==
    /\ \E c \in Configurations :
          /\ config = [ interpolate |-> c.interpolate, add_elevation |-> c.add_elevation,
                        interpolate_threshold2 |-> 1 ]
          /\ location_elevation = IF c.geo_tiffs
                                  THEN load(LocationElevationService, geo_tiff_folders(c))
                                  ELSE LocationElevationService
          /\ location_area = IF c.area_mapping THEN LoadedAreaService
                             ELSE LocationAreaService
          /\ temp_files = IF c.interpolate THEN { "n", "wr" } ELSE {}
    /\ valid_ids = SecondPassIds.valid_ids
    /\ no_elevation = SecondPassIds.no_elevation
    /\ location_index = << >>
    /\ next_node_id = SyntheticStart
    /\ stats = [ nodes_with_elevation |-> 0, nodes_with_elevation_not_found |-> 0,
                 nodes_added_by_interpolation |-> 0 ]
    /\ output_buffer = << >>
    /\ node_output_buffer = << >>
    /\ wr_file = << >>
    /\ n_file = << >>
    /\ output = << >>
    /\ last = [ input |-> [ type |-> "none" ], out |-> << >> ]
    /\ reads = 0
    /\ applied = 0
    /\ pc = "read"
    /\ tags = << >>
    /\ result = << >>
    /\ ways_seen = << >>
    /\ rels_seen = << >>
    /\ CallsIdle

Next ==
    \/ RewriteNode
    \/ RewriteWay
    \/ RewriteRelation
    \/ EndBuffer
    \/ EndOfInput
    \/ CopyNodes
    \/ CopyWaysRelations

Spec == Init /\ [][Next]_vars

(***************************************************************************)
(* The area service on its own: load reads the rows of the CSV, then       *)
(* get_area is asked for locations.                                        *)
(***************************************************************************)
\* rows of the CSV: an area that is exactly one box of the grid, areas that
\* lie across boxes on both sides of the equator and of the zero meridian, an
\* area that contains a box and lies across its neighbours,
\* a row with too few columns, a row whose geometry column is not a geometry
AreaRows ==
    { AreaRow("DEU", Rect(0, 2, 0, 2)),
      AreaRow("FRA", Rect(-3, 1, -1, 1)),
      AreaRow("BEL", Rect(1, 3, 0, 1)),
      AreaRow("NLD", Rect(-1, 3, -1, 2)),
      [ columns_ok |-> FALSE, geo_ok |-> FALSE, id |-> "", geo |-> {} ],
      [ columns_ok |-> TRUE, geo_ok |-> FALSE, id |-> "x", geo |-> {} ] }

AreaQueries == Rect(-3, 3, -1, 1)

\* locations on the last parallel and the last meridian
EdgeQueries ==
    { Location(0, 90 * CoordUnits), Location(180 * CoordUnits, 0),
      Location(-180 * CoordUnits, -90 * CoordUnits) }

\* rows with too few columns that load has read before the rows of the model:
\* each of them adds 1 to index and leaves the service as it is
SkippedRows == { 0, 65533 }

load_skip(st, n) == [ st EXCEPT !.index = (@ + n) % 65536 ]

\* load reads a row of the CSV
LoadRow ==
    \E row \in AreaRows :
        /\ area_load.open
        /\ area_load.rows < MaxAreaRows
        /\ LET r == load_row(location_area, area_load.st, row)
           IN  /\ location_area' = r.svc
               /\ area_load' = [ area_load EXCEPT
                      !.st = r.st,
                      !.rows = @ + 1,
                      !.areas = IF row.columns_ok /\ row.geo_ok
                                THEN Append(@, [ id |-> (r.st.index - 1) % 65536,
                                                 name |-> row.id, geo |-> row.geo ])
                                ELSE @ ]
        /\ UNCHANGED << tag_vars, first_vars, config, location_elevation, handler_vars,
                        file_vars, last, reads, applied, pc, query, tile_cache >>

\* load is at the end of the CSV
LoadEnd ==
    /\ area_load.open
    /\ location_area' = load_end(location_area, area_load.st)
    /\ area_load' = [ area_load EXCEPT !.open = FALSE ]
    /\ UNCHANGED << tag_vars, first_vars, config, location_elevation, handler_vars,
                    file_vars, last, reads, applied, pc, query, tile_cache >>

\* get_area is called
GetArea ==
    \E l \in AreaQueries \cup EdgeQueries :
        /\ ~ area_load.open
        /\ query' = [ op |-> "get_area", l |-> l ]
        /\ \E r \in get_area_outcomes(location_area, l) : result' = << r >>
        /\ UNCHANGED << tags, first_vars, rewrite_vars, area_load, tile_cache >>

AreaInit ==
    /\ \E h \in BOOLEAN : \E n \in SkippedRows :
           area_load = [ open |-> TRUE, st |-> load_skip(load_begin(h), n), rows |-> 0,
                         areas |-> << >> ]
    /\ query = [ op |-> "none" ]
    /\ tile_cache = [ open |-> FALSE ]
    /\ tags = << >>
    /\ result = << >>
    /\ valid_ids = NoIds
    /\ no_elevation = NoElevationNone
    /\ ways_seen = << >>
    /\ rels_seen = << >>
    /\ RewriteIdle

AreaNext == LoadRow \/ LoadEnd \/ GetArea

SpecArea == AreaInit /\ [][AreaNext]_vars

(***************************************************************************)
(* The elevation service on its own: load indexes a set of tiles, then      *)
(* elevation and load_tiff are called while files of the tiles are removed  *)
(* or overwritten.                                                          *)
(***************************************************************************)
MaxDamaged == 1    \* files that are removed or overwritten after load

TileSets ==
    { {},
      { "srtmdata/srtm_38_03.tif" },
      { "tiffs/custom.tif", "gmteddata/50N000E_gmted.tif" },
      { "srtmdata/srtm_38_03.tif", "srtmdata/srtm_39_03.tif", "gmteddata/50N000E_gmted.tif" },
      DOMAIN Geotiffs }

CacheLimits == { 1, 4, 6 }

\* the files of the rasters and their sizes
Disk ==
    [ f \in DOMAIN Geotiffs |->
        [ size |-> CASE f = "tiffs/custom.tif" -> 1
                     [] f = "gmteddata/50N000E_gmted.tif" -> 3
                     [] OTHER -> 2,
          opens |-> TRUE ] ]

ElevationQueries == { Location(x, 0) : x \in -2..4 }

Damaged(disk) == { f \in DOMAIN Geotiffs : f \notin DOMAIN disk \/ ~ disk[f].opens }

\* a call of elevation(l, false)
Elevation ==
    \E l \in ElevationQueries :
        \E r \in elevation_cached(location_elevation, tile_cache, l) :
            /\ tile_cache.open
            /\ query' = [ op |-> "elevation", l |-> l ]
            /\ result' = << [ outcome |-> r.outcome, ele |-> r.ele ] >>
            /\ tile_cache' = [ r.cache EXCEPT !.open = (r.outcome = "returns") ]
            /\ UNCHANGED << tags, first_vars, rewrite_vars, area_load >>

\* a call of load_tiff(filename)
LoadTiff ==
    \E filename \in DOMAIN Geotiffs :
        LET t == load_tiff(tile_cache, filename)
        IN  /\ tile_cache.open
            /\ query' = [ op |-> "load_tiff", filename |-> filename ]
            /\ result' = << [ outcome |-> t.outcome ] >>
            /\ tile_cache' = [ t.cache EXCEPT !.open = (t.outcome # "filesystem_error") ]
            /\ UNCHANGED << tags, first_vars, rewrite_vars, area_load >>

\* the environment removes the file of a tile
RemoveFile ==
    \E filename \in DOMAIN tile_cache.disk :
        /\ tile_cache.open
        /\ Cardinality(Damaged(tile_cache.disk)) < MaxDamaged
        /\ tile_cache' = [ tile_cache EXCEPT !.disk = erase(@, filename) ]
        /\ query' = [ op |-> "none" ]
        /\ result' = << >>
        /\ UNCHANGED << tags, first_vars, rewrite_vars, area_load >>

\* the environment overwrites the file of a tile with an empty file
TruncateFile ==
    \E filename \in DOMAIN tile_cache.disk :
        /\ tile_cache.open
        /\ Cardinality(Damaged(tile_cache.disk)) < MaxDamaged
        /\ tile_cache' = [ tile_cache EXCEPT
                             !.disk[filename] = [ size |-> 0, opens |-> FALSE ] ]
        /\ query' = [ op |-> "none" ]
        /\ result' = << >>
        /\ UNCHANGED << tags, first_vars, rewrite_vars, area_load >>

ElevationInit ==
    /\ \E folders \in TileSets :
           location_elevation = load(LocationElevationService, folders)
    /\ \E cache_limit \in CacheLimits : tile_cache = TileCache(cache_limit, Disk)
    /\ query = [ op |-> "none" ]
    /\ area_load = [ open |-> FALSE ]
    /\ tags = << >>
    /\ result = << >>
    /\ valid_ids = NoIds
    /\ no_elevation = NoElevationNone
    /\ ways_seen = << >>
    /\ rels_seen = << >>
    /\ config = [ interpolate |-> FALSE, add_elevation |-> FALSE,
                  interpolate_threshold2 |-> 1 ]
    /\ location_area = LocationAreaService
    /\ location_index = << >>
    /\ next_node_id = 0
    /\ stats = [ nodes_with_elevation |-> 0, nodes_with_elevation_not_found |-> 0,
                 nodes_added_by_interpolation |-> 0 ]
    /\ output_buffer = << >>
    /\ node_output_buffer = << >>
    /\ wr_file = << >>
    /\ n_file = << >>
    /\ output = << >>
    /\ temp_files = {}
    /\ last = [ input |-> [ type |-> "none" ], out |-> << >> ]
    /\ reads = 0
    /\ applied = 0
    /\ pc = "idle"

ElevationNext == Elevation \/ LoadTiff \/ RemoveFile \/ TruncateFile

SpecElevation == ElevationInit /\ [][ElevationNext]_vars

(***************************************************************************)
(* The tag copy rule on its own: one call of copy_tags with its arguments,  *)
(* then the same call on the tag list that the call before it built.        *)
(***************************************************************************)
MaxCopies == 2    \* calls of copy_tags in a row

CopyTags ==
    { Tag(<<"name">>, "a"), Tag(<<"FixME">>, "x"), Tag(<<"note", "check">>, "x"),
      Tag(<<"ele">>, "7"), Tag(<<"ele">>, "5.000000"), Tag(<<"country">>, "XX") }

\* what RewriteHandler::node passes on: ele is kNoDataValue unless
\* add_elevation_ is set
CopyCalls ==
    { [ op |-> "copy_tags", node |-> TRUE, ele |-> e, countries |-> c, add_elevation |-> a ]
        : e \in { kNoDataValue, 0, 5 },
          c \in { << >>, << "DEU" >>, << "DEU", "FRA" >> },
          a \in BOOLEAN }

\* copy_tags(builder, tags, ele, countries) on the tag list at hand
CopyTagsNode ==
    /\ query.op = "copy_tags"
    /\ query.node
    /\ Len(result) < MaxCopies
    /\ tags' = copy_tags_node(tags, query.ele, query.countries, query.add_elevation)
    /\ result' = Append(result, tags')
    /\ UNCHANGED << first_vars, rewrite_vars, call_vars >>

\* copy_tags(builder, tags) on the tag list at hand
CopyTagsWay ==
    /\ query.op = "copy_tags"
    /\ ~ query.node
    /\ Len(result) < MaxCopies
    /\ tags' = copy_tags(tags)
    /\ result' = Append(result, tags')
    /\ UNCHANGED << first_vars, rewrite_vars, call_vars >>

CopyInit ==
    /\ tags \in SeqsUpTo(CopyTags, MaxTags)
    /\ \/ \E c \in CopyCalls :
            /\ c.add_elevation \/ c.ele = kNoDataValue
            /\ query = c
       \/ query = [ op |-> "copy_tags", node |-> FALSE, ele |-> kNoDataValue,
                    countries |-> << >>, add_elevation |-> FALSE ]
    /\ result = << >>
    /\ area_load = [ open |-> FALSE ]
    /\ tile_cache = [ open |-> FALSE ]
    /\ valid_ids = NoIds
    /\ no_elevation = NoElevationNone
    /\ ways_seen = << >>
    /\ rels_seen = << >>
    /\ RewriteIdle

CopyNext == CopyTagsNode \/ CopyTagsWay

SpecCopy == CopyInit /\ [][CopyNext]_vars

(***************************************************************************)
(* RewriteHandler::interpolate on its own: the locations of the nodes of a  *)
(* way are in the index, the way is interpolated, the threshold is raised   *)
(* and the way is interpolated again.                                       *)
(***************************************************************************)
MaxInterpolations == 2    \* calls of interpolate on the way

\* interpolate_threshold_, doubled
Thresholds2 == { 0, 1, 2, 9, 10, 40 }

InterpolatedRefs == { << 0, 1 >>, << 0, 1, 2 >> }

\* interpolate(way, wnl_builder) under the threshold at hand
InterpolateWay ==
    /\ query.op = "interpolate"
    /\ Len(result) < MaxInterpolations
    /\ \A r \in Range(result) : r.threshold2 # query.threshold2
    /\ \E r \in RewriteHandler_interpolate(location_elevation, location_index, query.refs,
                                           next_node_id, query.threshold2) :
           result' = Append(result, [ threshold2 |-> query.threshold2, ok |-> r.ok,
                                      refs |-> r.refs, nodes |-> r.nodes ])
    /\ UNCHANGED << tags, first_vars, rewrite_vars, call_vars >>

\* the same way under a higher threshold
RaiseThreshold ==
    /\ query.op = "interpolate"
    /\ Len(result) < MaxInterpolations
    /\ \E t \in Thresholds2 :
           /\ t > query.threshold2
           /\ query' = [ query EXCEPT !.threshold2 = t ]
    /\ UNCHANGED << tags, result, first_vars, rewrite_vars, area_load, tile_cache >>

InterpolateInit ==
    /\ \E folders \in TileSets :
           location_elevation = load(LocationElevationService, folders)
    /\ \E a, b \in -2..4 : \E c \in { -1, 3 } :
           location_index = [ id \in 0..2 |->
               Location(CASE id = 0 -> a [] id = 1 -> b [] id = 2 -> c, 0) ]
    /\ \E refs \in InterpolatedRefs : \E t \in Thresholds2 :
           query = [ op |-> "interpolate", refs |-> refs, threshold2 |-> t ]
    /\ next_node_id = SyntheticStart
    /\ area_load = [ open |-> FALSE ]
    /\ tile_cache = [ open |-> FALSE ]
    /\ tags = << >>
    /\ result = << >>
    /\ valid_ids = NoIds
    /\ no_elevation = NoElevationNone
    /\ ways_seen = << >>
    /\ rels_seen = << >>
    /\ config = [ interpolate |-> FALSE, add_elevation |-> FALSE,
                  interpolate_threshold2 |-> 1 ]
    /\ location_area = LocationAreaService
    /\ stats = [ nodes_with_elevation |-> 0, nodes_with_elevation_not_found |-> 0,
                 nodes_added_by_interpolation |-> 0 ]
    /\ output_buffer = << >>
    /\ node_output_buffer = << >>
    /\ wr_file = << >>
    /\ n_file = << >>
    /\ output = << >>
    /\ temp_files = {}
    /\ last = [ input |-> [ type |-> "none" ], out |-> << >> ]
    /\ reads = 0
    /\ applied = 0
    /\ pc = "idle"

InterpolateNext == InterpolateWay \/ RaiseThreshold

SpecInterpolate == InterpolateInit /\ [][InterpolateNext]_vars

(***************************************************************************)
(* Claims about the first pass and the tag predicates.                     *)
(***************************************************************************)
\* the five validating predicates on (key, value)
ValidatingPairs ==
    { t \in AllTags \cup UNION { Range(l) : l \in WayTagLists } :
        \/ t.k \in { <<"highway">>, <<"route">> }
        \/ t.k \in { <<"railway">>, <<"public_transport">> } /\ t.v = "platform"
        \/ t.k = <<"man_made">> /\ t.v = "pier" }

\* the tags of a list that the removal regex leaves
FilteredView(tl) == { i \in 1..Len(tl) : ~ regex_match(tl[i].k) }

NoRelevantTags(tl) ==
    \/ FilteredView(tl) = {}
    \/ /\ \A i \in FilteredView(tl) : tl[i] \notin ValidatingPairs
       /\ \E i \in FilteredView(tl) : tl[i].k \in kInvalidatingTags

Permuted(tl) ==
    { [ i \in 1..Len(tl) |-> tl[p[i]] ] : p \in Permutations(1..Len(tl)) }

\* C1: every node id referenced by a way whose id is in valid_ids.ways() is in
\* valid_ids.nodes(), whatever ways and relations the first pass has read and in
\* whatever order.
C1_RetainedWayNodesRetained ==
    \A id \in valid_ids.ways :
        /\ id \in DOMAIN ways_seen
        /\ Range(ways_seen[id].refs) \subseteq valid_ids.nodes

C1_Witness ==
    \E id \in valid_ids.ways :
        /\ Len(ways_seen[id].refs) = 3
        /\ \E r \in DOMAIN rels_seen : rels_seen[r].id \in valid_ids.relations

\* C4: has_no_relevant_tags is true iff the filtered view is empty, or no
\* filtered tag validates and some filtered tag has an invalidating key; the
\* answer is the same for every order of the tags.
C4_HasNoRelevantTags ==
    result # << >> =>
        /\ result[1] = NoRelevantTags(tags)
        /\ \A tl \in Permuted(tags) : has_no_relevant_tags(tl) = result[1]

C4_Witness ==
    /\ result = << FALSE >>
    /\ Len(tags) = 2
    /\ tags[1].k \in kInvalidatingTags /\ tags[1] \notin ValidatingPairs
    /\ tags[2] \in ValidatingPairs

\* a way the claim calls removable on sight: fewer than two refs, or nothing
\* but tags that the regex removes or that are invalidating
OnlyInvalidatingOrRemoved(tl) ==
    \A i \in 1..Len(tl) :
        \/ regex_match(tl[i].k)
        \/ tl[i].k \in kInvalidatingTags /\ tl[i] \notin ValidatingPairs

Dropped(way) == Len(way.refs) < 2 \/ OnlyInvalidatingOrRemoved(way.tags)

\* C5: a way in valid_ids.ways() was read with id >= 0, two or more refs and
\* tags for which has_no_relevant_tags is false; a way with fewer than two refs
\* or with only invalidating or removed tags is not in valid_ids.ways() and
\* has put no node id into valid_ids.nodes().
C5_RetainedWays ==
    /\ \A id \in valid_ids.ways :
          /\ id >= 0
          /\ id \in DOMAIN ways_seen
          /\ Len(ways_seen[id].refs) >= 2
          /\ ~ has_no_relevant_tags(ways_seen[id].tags)
    /\ \A id \in DOMAIN ways_seen :
          Dropped(ways_seen[id]) => id \notin valid_ids.ways
    /\ valid_ids.nodes \subseteq
          UNION { Range(ways_seen[id].refs) :
                    id \in { i \in DOMAIN ways_seen : ~ Dropped(ways_seen[i]) } }
          \cup { m.ref : m \in UNION { Range(rels_seen[r].members) : r \in DOMAIN rels_seen } }

C5_Witness ==
    /\ \E id \in valid_ids.ways : Len(ways_seen[id].refs) >= 2
    /\ \E id \in DOMAIN ways_seen :
          /\ ways_seen[id].tags = << Building >>
          /\ Len(ways_seen[id].refs) >= 2
          /\ id \notin valid_ids.ways
          /\ ~ (Range(ways_seen[id].refs) \subseteq valid_ids.nodes)

(***************************************************************************)
(* Claims about the rewrite pass.                                          *)
(***************************************************************************)
\* every record the pass has emitted, nodes in the order of their emission
Emitted == output \o n_file \o node_output_buffer \o wr_file \o output_buffer

EmittedNodes == SelectSeq(Emitted, LAMBDA r : r.type = "node")

SyntheticNodes == SelectSeq(EmittedNodes, LAMBDA r : r.synthetic)

InputNodes == SelectSeq(EmittedNodes, LAMBDA r : ~ r.synthetic)

InputValid(e) ==
    /\ e.id >= 0
    /\ \/ e.type = "node" /\ e.id \in valid_ids.nodes
       \/ e.type = "way" /\ e.id \in valid_ids.ways
       \/ e.type = "relation" /\ e.id \in valid_ids.relations

\* what the last call emitted for its input entity, the interpolated nodes apart
Own == SelectSeq(last.out, LAMBDA e : ~ e.synthetic)

Keys(tl) == [ i \in 1..Len(tl) |-> tl[i].k ]

Count(tl, k) == Cardinality({ i \in 1..Len(tl) : tl[i].k = k })

\* C2: every node of the output has the id of an input node of valid_ids.nodes()
\* or is a synthetic node with an id >= the synthetic start, and the id of a
\* synthetic node is the id of no other node of the output.
C2_OutputNodeIds ==
    /\ \A i \in 1..Len(EmittedNodes) :
          IF EmittedNodes[i].synthetic THEN EmittedNodes[i].id >= SyntheticStart
          ELSE EmittedNodes[i].id \in valid_ids.nodes
    /\ \A i \in 1..Len(EmittedNodes) :
          EmittedNodes[i].synthetic =>
              \A j \in 1..Len(EmittedNodes) :
                  EmittedNodes[j].id = EmittedNodes[i].id => j = i

\* C3: a handler call emits exactly one entity of its input's type and id when
\* the input has an id >= 0 that is in its valid_ids set, and nothing
\* otherwise; the entity is the last of its buffer, after the entities of the
\* inputs read before; a relation's members are those of the input.
C3_OneOutputPerValidInput ==
    last.input.type # "none" =>
        IF InputValid(last.input)
        THEN /\ Len(Own) = 1
             /\ Own[1].type = last.input.type
             /\ Own[1].id = last.input.id
             /\ last.input.type = "relation" => Own[1].members = last.input.members
             /\ applied > 0 =>
                    LET b == IF last.input.type = "node" /\ config.interpolate
                             THEN node_output_buffer ELSE output_buffer
                    IN  b # << >> /\ b[Len(b)] = Record(Own[1])
        ELSE last.out = << >>

\* a key that the default removal expression matches in full, whatever its case
FullyMatchesIgnoringCase(k) ==
    \/ \E i \in 1..Len(k) : k[i] \in { "source", "Source", "note", "NOTE" }
    \/ k \in { <<"url">>, <<"URL">>, <<"created_by">>, <<"fixme">>, <<"FIXME">>,
                <<"FixME">>, <<"wikipedia">> }

\* C6: an emitted way or relation carries the input tags whose key the removal
\* expression does not match, in their order; an emitted node carries those of
\* them whose key is not country, and not ele when elevations are added, in
\* their order, followed only by the ele and country tags the pass adds.
C6_TagsCopied ==
    Own # << >> =>
        LET in == last.input.tags
            out == Own[1].tags
        IN  IF last.input.type = "node"
            THEN LET kept == SelectSeq(in, LAMBDA t :
                                 /\ ~ FullyMatchesIgnoringCase(t.k)
                                 /\ t.k # <<"country">>
                                 /\ ~ (t.k = <<"ele">> /\ config.add_elevation))
                 IN  /\ Len(out) >= Len(kept)
                     /\ SubSeq(out, 1, Len(kept)) = kept
                     /\ \A i \in (Len(kept) + 1)..Len(out) :
                            out[i].k \in { <<"ele">>, <<"country">> }
            ELSE out = SelectSeq(in, LAMBDA t : ~ FullyMatchesIgnoringCase(t.k))

C6_Witness ==
    /\ Own # << >>
    /\ last.input.type = "node"
    /\ last.input.tags = << Tag(<<"ele">>, "7"), Tag(<<"FixME">>, "x") >>
    /\ Own[1].tags = << Tag(<<"ele">>, "7") >>

\* C7: a node of the output has at most one ele and at most one country tag.
\* A node copied from the input has no ele tag when elevations are not added
\* and the input node had none, and no country tag when no area mapping is
\* loaded; an interpolated node has the ele tag of its sample and no other tag.
C7_EleAndCountry ==
    \A i \in 1..Len(last.out) :
        last.out[i].type = "node" =>
            /\ Count(last.out[i].tags, <<"ele">>) <= 1
            /\ Count(last.out[i].tags, <<"country">>) <= 1
            /\ IF last.out[i].synthetic
               THEN Keys(last.out[i].tags) = << <<"ele">> >>
               ELSE /\ (~ config.add_elevation /\ Count(last.input.tags, <<"ele">>) = 0)
                           => Count(last.out[i].tags, <<"ele">>) = 0
                    /\ ~ location_area.initialized
                           => Count(last.out[i].tags, <<"country">>) = 0

C7_Witness ==
    /\ Own # << >>
    /\ last.input.type = "node"
    /\ config.add_elevation
    /\ Count(last.input.tags, <<"ele">>) = 1
    /\ Own[1].tags = << Tag(<<"ele">>, "0.000000") >>

\* C8: a retained way that is rewritten while interpolation is off, or the
\* elevation service is not initialized, or its id is in no_elevation.ways(),
\* is emitted with the refs of the input in their order, and no synthetic node
\* is emitted with it.
C8_RefsUnchanged ==
    ( /\ last.input.type = "way"
      /\ InputValid(last.input)
      /\ \/ ~ config.interpolate
         \/ ~ location_elevation.initialized
         \/ last.input.id \in no_elevation.ways )
    => /\ Len(last.out) = 1
       /\ last.out[1].type = "way"
       /\ last.out[1].refs = last.input.refs

C8_Witness ==
    /\ last.input.type = "way"
    /\ last.input.id \in no_elevation.ways
    /\ config.interpolate
    /\ location_elevation.initialized
    /\ last.input.refs = << 0, 1, 0 >>
    /\ {0, 1} \subseteq DOMAIN location_index
    /\ location_index[0].lon = 0
    /\ location_index[1].lon = 1
    /\ Len(last.out) = 1
    /\ last.out[1].refs = << 0, 1, 0 >>

\* C9: the ids of the synthetic nodes, in the order of their emission over all
\* the ways of the pass, are the synthetic start and its successors; when every
\* input node of the output has an id below the synthetic start, no synthetic
\* node has the id of an input node.
C9_SyntheticIdsIncrease ==
    /\ \A i \in 1..Len(SyntheticNodes) : SyntheticNodes[i].id = SyntheticStart + i - 1
    /\ next_node_id = SyntheticStart + Len(SyntheticNodes)
    /\ (\A i \in 1..Len(InputNodes) : InputNodes[i].id < SyntheticStart) =>
           \A i \in 1..Len(SyntheticNodes) : \A j \in 1..Len(InputNodes) :
               SyntheticNodes[i].id # InputNodes[j].id

C9_Witness ==
    /\ last.input.type = "way"
    /\ last.input.id = 3
    /\ Len(last.out) = 3
    /\ last.out[1].id = SyntheticStart + 2
    /\ last.out[2].id = SyntheticStart + 3
    /\ Len(InputNodes) = 2
    /\ \A i \in 1..Len(InputNodes) : InputNodes[i].id < SyntheticStart

\* C10: with interpolation, the nodes go to the nodes file and the ways and
\* relations to the other, the final file is written only after the loop, and
\* when second_pass is done every node of the final file, synthetic or not,
\* precedes every way and relation, nothing that was emitted is missing, and
\* both temporary files are removed.
C10_NodesFirst ==
    config.interpolate =>
        /\ \A i \in 1..Len(n_file) : n_file[i].type = "node"
        /\ \A i \in 1..Len(wr_file) : wr_file[i].type # "node"
        /\ pc \in { "read", "eof", "copy_n", "failed" } =>
               output = << >> /\ temp_files = { "n", "wr" }
        /\ pc = "copy_wr" =>
               /\ \A i \in 1..Len(output) : output[i].type = "node"
               /\ temp_files = { "wr" }
        /\ pc = "done" =>
               /\ \A i, j \in 1..Len(output) :
                      (i < j /\ output[j].type = "node") => output[i].type = "node"
               /\ Len(SelectSeq(output, LAMBDA r : r.synthetic))
                      = stats.nodes_added_by_interpolation
               /\ n_file = << >> /\ wr_file = << >>
               /\ temp_files = {}

C10_Witness ==
    /\ config.interpolate
    /\ pc = "done"
    /\ last.input.type = "node"
    /\ last.out # << >>
    /\ \E i \in 1..Len(output) :
          /\ output[i].synthetic
          /\ i + 2 = Len(output)
          /\ output[i + 1].type = "node"
          /\ output[i + 2].type = "way"

(***************************************************************************)
(* Claims about the area service.                                          *)
(***************************************************************************)
\* the box of the grid that get_area reads for the location asked
ConsultedCell == grid_index(query.l)

\* the entries of a box whose geometry contains the location, in their order
RECURSIVE NamesContaining(_, _, _)
NamesContaining(entries, i, l) ==
    IF i > Len(entries) THEN << >>
    ELSE (IF l \in entries[i].geo THEN << location_area.mapping_id[entries[i].id] >>
          ELSE << >>) \o NamesContaining(entries, i + 1, l)

\* C11: get_area returns the empty list when the service is not initialized or
\* the box of the location has index 0, the one name of the area when the box
\* holds a single area id, and for a box flagged multiple the names of the
\* entries of that box whose geometry contains the location, in their order.
C11_GetArea ==
    (query.op = "get_area" /\ ConsultedCell < grid_size) =>
        LET idx == mapping_index_at(location_area, ConsultedCell)
        IN  /\ (~ location_area.initialized \/ idx = 0) => result[1] = << >>
            /\ (location_area.initialized /\ idx \notin {0, area_id_multiple})
                   => result[1] = << location_area.mapping_id[idx] >>
            /\ (location_area.initialized /\ idx = area_id_multiple)
                   => result[1] = NamesContaining(
                                      equal_range(location_area, ConsultedCell), 1, query.l)

C11_Witness ==
    /\ query.op = "get_area"
    /\ location_area.initialized
    /\ mapping_index_at(location_area, ConsultedCell) = area_id_multiple
    /\ Len(equal_range(location_area, ConsultedCell)) = 2
    /\ Len(result[1]) = 1

\* C12: for every location, those of negative latitude or longitude included,
\* get_area reads the box (floor(lat) + 90) * 360 + (floor(lon) + 180), which is
\* the unit-degree box that contains the location.
C12_FloorCell ==
    query.op = "get_area" =>
        /\ ConsultedCell = ((query.l.lat \div CoordUnits) + 90) * 360
                           + ((query.l.lon \div CoordUnits) + 180)
        /\ query.l \in grid(ConsultedCell)


(***************************************************************************)
(* Claims about the elevation service.                                      *)
(***************************************************************************)
\* the indexed tiles whose box contains the location of the query
ContainingTiles == { e \in location_elevation.rtree : box_contains(e.box, query.l) }

\* a file that load_tiff can hand back no raster of: it is gone and not
\* cached, or its Geotiff holds no dataset
Unavailable(filename) ==
    \/ filename \notin DOMAIN tile_cache.disk /\ filename \notin DOMAIN tile_cache.cache
    \/ filename \in DOMAIN tile_cache.cache /\ ~ tile_cache.cache[filename]
    \/ /\ filename \in DOMAIN tile_cache.disk
       /\ filename \notin DOMAIN tile_cache.cache
       /\ ~ tile_cache.disk[filename].opens

\* C13: a call of elevation(l) whose tiles can be opened returns the sample of
\* a tile of the smallest prio among the indexed tiles whose box contains l,
\* and NODATA when no indexed tile contains l
C13_FinestTile ==
    ( /\ query.op = "elevation"
      /\ \A e \in ContainingTiles : ~ Unavailable(e.filename) ) =>
        /\ result[1].outcome = "returns"
        /\ IF ContainingTiles = {} THEN result[1].ele = kNoDataValue
           ELSE \E e \in ContainingTiles :
                    /\ \A o \in ContainingTiles : e.prio <= o.prio
                    /\ result[1].ele
                         = Geotiff_elevation(Geotiffs[e.filename], query.l.lon, query.l.lat)

\* a location in a fine and in a coarse tile, of which the fine one was sampled
C13_Witness ==
    /\ query.op = "elevation"
    /\ result[1].outcome = "returns"
    /\ result[1].ele # kNoDataValue
    /\ \E e, o \in ContainingTiles :
           /\ e.prio < o.prio
           /\ ~ Unavailable(e.filename)
           /\ result[1].ele
                # Geotiff_elevation(Geotiffs[o.filename], query.l.lon, query.l.lat)


\* the sum of the recorded sizes of a set of files
RECURSIVE total_size(_, _)
total_size(tile_size, files) ==
    IF files = {} THEN 0
    ELSE LET f == CHOOSE x \in files : TRUE
         IN  tile_size[f] + total_size(tile_size, files \ {f})

\* C14: whenever the LRU list holds two or more tiles, the sizes of the files
\* of the cached rasters add up to no more than the cache limit
C14_CacheWithinLimit ==
    Len(tile_cache.lru) >= 2 =>
        total_size(tile_cache.tile_size, DOMAIN tile_cache.cache) <= tile_cache.cache_limit


\* C15: in the rewrite pass the three counters of the elevation service add up
\* to the number of nodes that were given an elevation
C15_FoundCounters ==
    location_elevation.found_custom + location_elevation.found_srtm
        + location_elevation.found_gmted = stats.nodes_with_elevation

\* a way was interpolated after nodes were given an elevation
C15_Witness ==
    /\ stats.nodes_added_by_interpolation >= 1
    /\ stats.nodes_with_elevation >= 2
    /\ location_elevation.found_srtm >= 2


\* the tiles of which the query needs one: the finest that contain its location
NeededTiles == { e \in ContainingTiles : \A o \in ContainingTiles : e.prio <= o.prio }

\* C16: load_tiff on a file that is missing or cannot be opened returns the
\* null handle, and elevation() on a location whose tile is missing or cannot
\* be opened returns NODATA and the service goes on
C16_MissingTileIsNoData ==
    /\ (query.op = "load_tiff" /\ Unavailable(query.filename)) =>
           result[1].outcome = "nullptr"
    /\ ( /\ query.op = "elevation"
         /\ NeededTiles # {}
         /\ \A e \in NeededTiles : Unavailable(e.filename) ) =>
           /\ result[1].outcome = "returns"
           /\ result[1].ele = kNoDataValue
           /\ tile_cache.open


\* the elevations that the tiles of a kind hold for the location of the query
Samples(tiles) ==
    { Geotiff_elevation(Geotiffs[e.filename], query.l.lon, query.l.lat) : e \in tiles }
        \ { kNoDataValue }

SrtmTiles == { e \in ContainingTiles : starts_with_srtm(e.filename) }
GmtedTiles == { e \in ContainingTiles : contains_gmted(e.filename) }

\* C19: where only SRTM and GMTED tiles cover a location, its elevation is the
\* one the SRTM data holds for it and, where the SRTM data holds none, the one
\* the GMTED data holds for it
C19_FallsBackToGmted ==
    ( /\ query.op = "elevation"
      /\ ContainingTiles = SrtmTiles \cup GmtedTiles
      /\ \A e \in ContainingTiles : ~ Unavailable(e.filename) ) =>
        IF Samples(SrtmTiles) # {} THEN result[1].ele \in Samples(SrtmTiles)
        ELSE IF Samples(GmtedTiles) # {} THEN result[1].ele \in Samples(GmtedTiles)
        ELSE result[1].ele = kNoDataValue


\* C17: every node that a way of no_elevation.ways() references is in
\* no_elevation.nodes()
C17_NoElevationWayNodes ==
    \A id \in no_elevation.ways :
        Range(ways_seen[id].refs) \subseteq no_elevation.nodes

\* a way with refs was marked as a way without elevation
C17_Witness ==
    \E id \in no_elevation.ways :
        /\ Len(ways_seen[id].refs) >= 2
        /\ is_no_elevation(ways_seen[id])
        /\ Range(ways_seen[id].refs) \subseteq no_elevation.nodes


(***************************************************************************)
(* Claims about the tag copy rule and the interpolation.                    *)
(***************************************************************************)
\* C18: copy_tags, called with the same elevation and areas on a tag list that
\* it built, builds that tag list again
C18_CopyTagsIdempotent ==
    \A i \in 2..Len(result) : result[i] = result[1]

\* a node whose ele and country tags were replaced and whose tag list was
\* copied a second time
C18_Witness ==
    /\ query.op = "copy_tags"
    /\ Len(result) = 2
    /\ query.node /\ query.add_elevation
    /\ query.ele # kNoDataValue /\ query.countries # << >>
    /\ Len(result[1]) = 3
    /\ result[1][1].k = <<"name">>
    /\ result[1][2] = Tag(<<"ele">>, std_to_string(query.ele))
    /\ result[1][3] = Tag(<<"country">>, join(query.countries))


\* the vectors that LocationElevationService::interpolate can return for the
\* k-th pair of consecutive refs of the way
SegmentSamples(k) ==
    LocationElevationService_interpolate(location_elevation,
        location_index[query.refs[k]], location_index[query.refs[k + 1]]).les

\* every pair of the way has one vector of samples
Determined == \A k \in 1..(Len(query.refs) - 1) : Cardinality(SegmentSamples(k)) = 1

Les(k) == CHOOSE les \in SegmentSamples(k) : TRUE

\* the rule of the claim for the sample at position i, positions counted from
\* 1: an interior sample with data whose doubled elevation is threshold2 or
\* more away from the sum of its neighbours
ProducesNode(les, i, threshold2) ==
    /\ 1 < i /\ i < Len(les)
    /\ les[i].ele # kNoDataValue
    /\ \/ 2 * les[i].ele - (les[i - 1].ele + les[i + 1].ele) >= threshold2
       \/ (les[i - 1].ele + les[i + 1].ele) - 2 * les[i].ele >= threshold2

SamplesWithNode(les, threshold2) ==
    LET positions == SelectSeq([ i \in 1..Len(les) |-> i ],
                               LAMBDA i : ProducesNode(les, i, threshold2))
    IN  [ j \in 1..Len(positions) |-> les[positions[j]] ]

\* the refs and the samples of the synthetic nodes that the rule gives from
\* the k-th pair on
RECURSIVE ExpectedWay(_, _, _, _)
ExpectedWay(k, threshold2, next, acc) ==
    IF k > Len(query.refs) - 1 THEN acc
    ELSE LET sw == SamplesWithNode(Les(k), threshold2)
         IN  ExpectedWay(k + 1, threshold2, next + Len(sw),
                 [ refs |-> acc.refs \o [ j \in 1..Len(sw) |-> next + j - 1 ]
                                     \o << query.refs[k + 1] >>,
                   les  |-> acc.les \o sw ])

Expected(threshold2) ==
    ExpectedWay(1, threshold2, SyntheticStart, [ refs |-> << query.refs[1] >>, les |-> << >> ])

\* C20: an interpolated way gets a synthetic node, between from and to, for
\* exactly the interior samples with data that deviate from the mean of their
\* neighbours by the threshold or more, none for a first or last sample, none
\* with NODATA, and no more of them under a higher threshold
C20_InterpolationRule ==
    (query.op = "interpolate" /\ Determined) =>
        /\ \A n \in 1..Len(result) :
               result[n].ok =>
                   LET e == Expected(result[n].threshold2)
                   IN  /\ result[n].refs = e.refs
                       /\ Len(result[n].nodes) = Len(e.les)
                       /\ \A j \in 1..Len(e.les) :
                              /\ e.les[j].ele # kNoDataValue
                              /\ result[n].nodes[j].location = e.les[j].location
                              /\ result[n].nodes[j].tags
                                   = << Tag(<<"ele">>, std_to_string(e.les[j].ele)) >>
        /\ \A m, n \in 1..Len(result) :
               (result[m].ok /\ result[n].ok /\ result[m].threshold2 <= result[n].threshold2)
                   => Len(result[n].nodes) <= Len(result[m].nodes)

\* a way of two pairs that got synthetic nodes, fewer of them under the higher
\* threshold, and one of whose interior samples has no data
C20_Witness ==
    /\ query.op = "interpolate"
    /\ Determined
    /\ Len(query.refs) = 3
    /\ Len(result) = 2
    /\ result[1].ok /\ result[2].ok
    /\ Len(result[2].nodes) >= 1
    /\ Len(result[2].nodes) < Len(result[1].nodes)
    /\ \E k \in 1..2 : \E i \in 2..(Len(Les(k)) - 1) : Les(k)[i].ele = kNoDataValue


(***************************************************************************)
(* Claims about the errors of the interpolation.                            *)
(***************************************************************************)
\* the way that was read last is retained and add_refs interpolates it
Interpolated ==
    /\ last.input.type = "way"
    /\ InputValid(last.input)
    /\ config.interpolate
    /\ location_elevation.initialized
    /\ last.input.id \notin no_elevation.ways

\* no indexed tile intersects the k-th pair of refs of the way read last
NoTileIntersects(k) ==
    LET from == location_index[last.input.refs[k]]
        to == location_index[last.input.refs[k + 1]]
    IN  \A e \in location_elevation.rtree :
            ~ box_intersects(e.box, Min(from.lon, to.lon), Max(from.lon, to.lon))

\* the way of the output of the call, if there is one
EmittedWay == SelectSeq(last.out, LAMBDA e : e.type = "way")

\* C21: an interpolated way all of whose nodes have a location and of which a
\* pair of refs is intersected by no tile is emitted, the pass goes on, and
\* where no pair is intersected by a tile the way has the refs of the input
\* and no synthetic node
C21_EmptySamples ==
    ( /\ Interpolated
      /\ Range(last.input.refs) \subseteq DOMAIN location_index
      /\ \E k \in 1..(Len(last.input.refs) - 1) : NoTileIntersects(k) ) =>
        /\ pc # "failed"
        /\ Len(EmittedWay) = 1
        /\ (\A k \in 1..(Len(last.input.refs) - 1) : NoTileIntersects(k)) =>
               /\ EmittedWay[1].refs = last.input.refs
               /\ Len(last.out) = 1

\* C22: a retained way that is rewritten with interpolation enabled and that
\* references a node without an entry in the location index is emitted with
\* all the refs of the input, and the pass goes on
C22_MissingNodeLocation ==
    ( /\ last.input.type = "way"
      /\ InputValid(last.input)
      /\ config.interpolate
      /\ ~ (Range(last.input.refs) \subseteq DOMAIN location_index) ) =>
        /\ pc # "failed"
        /\ Len(EmittedWay) = 1
        /\ Range(last.input.refs) \subseteq Range(EmittedWay[1].refs)


(***************************************************************************)
(* Further claims about the first pass.                                     *)
(***************************************************************************)
\* a way that the claim calls marked: visited with an id >= 0, not removable,
\* with a tag of one of the four keys whose value is not "no"
MarkedNoElevation(way) ==
    /\ way.id >= 0
    /\ Len(way.refs) >= 2
    /\ ~ NoRelevantTags(way.tags)
    /\ \E i \in 1..Len(way.tags) :
           /\ way.tags[i].k \in { <<"bridge">>, <<"tunnel">>, <<"cutting">>, <<"indoor">> }
           /\ way.tags[i].v # "no"

\* C23: the ids of no_elevation.ways() are those of the ways that were visited
\* with an id >= 0, are not removable and have a tag with one of the keys
\* bridge, tunnel, cutting, indoor and a value other than "no"; all of them
\* are in valid_ids.ways()
C23_NoElevationWays ==
    /\ no_elevation.ways = { id \in DOMAIN ways_seen : MarkedNoElevation(ways_seen[id]) }
    /\ no_elevation.ways \subseteq valid_ids.ways

\* a marked way, and a way that is not marked although it has such a tag
C23_Witness ==
    /\ \E id \in no_elevation.ways : ways_seen[id].tags[2] = Tag(<<"tunnel">>, "yes")
    /\ \E id \in DOMAIN ways_seen :
           /\ id \notin no_elevation.ways
           /\ Len(ways_seen[id].refs) >= 2
           /\ \E i \in 1..Len(ways_seen[id].tags) :
                  ways_seen[id].tags[i].k \in { <<"bridge">>, <<"tunnel">> }


\* the ways and relations that were visited, as sets
VisitedWays == { ways_seen[id] : id \in DOMAIN ways_seen }
VisitedRelations == { rels_seen[id] : id \in DOMAIN rels_seen }

RetainedWays ==
    { w \in VisitedWays : w.id >= 0 /\ Len(w.refs) >= 2 /\ ~ NoRelevantTags(w.tags) }
RetainedRelations == { r \in VisitedRelations : r.id >= 0 /\ ~ NoRelevantTags(r.tags) }

NodeMembers(r) ==
    { r.members[i].ref : i \in { j \in 1..Len(r.members) : r.members[j].type = "node" } }

\* C24: valid_ids and no_elevation are functions of the set of the ways and
\* relations that were visited, whatever the order of the visits; a relation
\* gives its node members to valid_ids.nodes() and nothing to valid_ids.ways()
C24_OrderIndependent ==
    /\ valid_ids.ways = { w.id : w \in RetainedWays }
    /\ valid_ids.relations = { r.id : r \in RetainedRelations }
    /\ valid_ids.nodes = UNION { Range(w.refs) : w \in RetainedWays }
                             \cup UNION { NodeMembers(r) : r \in RetainedRelations }
    /\ no_elevation.ways = { w.id : w \in { v \in VisitedWays : MarkedNoElevation(v) } }
    /\ no_elevation.nodes
         = UNION { Range(w.refs) : w \in { v \in VisitedWays : MarkedNoElevation(v) } }

\* a retained relation with a way among its members and a retained way were
\* visited
C24_Witness ==
    /\ \E r \in RetainedRelations :
           /\ \E i \in 1..Len(r.members) : r.members[i].type = "way"
           /\ NodeMembers(r) # {}
    /\ RetainedWays # {}
    /\ no_elevation.nodes # {}


(***************************************************************************)
(* Claims about the raster cache.                                           *)
(***************************************************************************)
\* the recorded sizes of the first n tiles of an LRU list, added up
UsedBytes(c, n) == total_size(c.tile_size, { c.lru[i] : i \in 1..n })

\* a step that is a call of load_tiff(filename) that returns
LoadTiffReturns(filename) ==
    /\ tile_cache.open
    /\ query'.op = "load_tiff"
    /\ query'.filename = filename
    /\ result'[1].outcome # "filesystem_error"

\* C25: a call of load_tiff that hits leaves the cache and its bytes as they
\* are and moves the tile to the front; a call that misses and opens the file
\* drops tiles from the back of the LRU list, each of them while the bytes in
\* use and the size of the file exceed the limit, until the list is empty or
\* the file fits, and puts the tile at the front
C25_EvictionOrder ==
    [][ \A filename \in DOMAIN Geotiffs :
          LoadTiffReturns(filename) =>
            IF filename \in DOMAIN tile_cache.cache
            THEN /\ tile_cache'.cache = tile_cache.cache
                 /\ tile_cache'.mem_size = tile_cache.mem_size
                 /\ tile_cache'.lru
                      = << filename >> \o SelectSeq(tile_cache.lru, LAMBDA f : f # filename)
            ELSE IF result'[1].outcome = "nullptr"
            THEN /\ tile_cache'.cache = tile_cache.cache
                 /\ tile_cache'.lru = tile_cache.lru
            ELSE LET size == tile_cache'.tile_size[filename]
                     kept == Len(tile_cache'.lru) - 1
                 IN  /\ tile_cache'.lru = << filename >> \o SubSeq(tile_cache.lru, 1, kept)
                     /\ DOMAIN tile_cache'.cache = Range(tile_cache'.lru)
                     /\ \A n \in (kept + 1)..Len(tile_cache.lru) :
                            UsedBytes(tile_cache, n) + size > tile_cache.cache_limit
                     /\ \/ kept = 0
                        \/ UsedBytes(tile_cache, kept) + size <= tile_cache.cache_limit
      ]_vars


\* C26: the LRU list holds the keys of the cache map, each of them once, and
\* mem_size_ is the sum of the recorded sizes of the cached files
C26_CacheConsistent ==
    tile_cache.open =>
        /\ Range(tile_cache.lru) = DOMAIN tile_cache.cache
        /\ \A i, j \in 1..Len(tile_cache.lru) :
               tile_cache.lru[i] = tile_cache.lru[j] => i = j
        /\ tile_cache.mem_size = total_size(tile_cache.tile_size, DOMAIN tile_cache.cache)

\* a cache of two or more tiles that fill the limit, after an eviction
C26_Witness ==
    /\ tile_cache.open
    /\ query.op = "load_tiff"
    /\ Len(tile_cache.lru) >= 2
    /\ tile_cache.lru[1] = query.filename
    /\ tile_cache.mem_size = tile_cache.cache_limit
    /\ DOMAIN tile_cache.tile_size # DOMAIN tile_cache.cache


(***************************************************************************)
(* Claims about the loading of the areas.                                   *)
(***************************************************************************)
\* the names of the areas that were loaded and whose geometry contains l
AreasContaining(l) ==
    { area_load.areas[i].name : i \in { j \in 1..Len(area_load.areas) :
                                          l \in area_load.areas[j].geo } }

\* C27: get_area(p) returns the names of the loaded areas whose geometry
\* contains p, each of them and no other, whatever the order of the rows
C27_AreasOfPoint ==
    query.op = "get_area" => Range(result[1]) = AreasContaining(query.l)


\* the entries of mapping_area_ for a box that belong to an area id
EntriesOf(i, id) ==
    { j \in 1..Len(location_area.mapping_area[i]) : location_area.mapping_area[i][j].id = id }

\* C28: mapping_area_ has entries only for the boxes that mapping_index_ flags
\* multiple, and for such a box it has one entry for each loaded area that
\* intersects the box
C28_OverlapEntries ==
    \A i \in GridWindow :
        /\ location_area.mapping_area[i] # << >>
               => location_area.mapping_index[i] = area_id_multiple
        /\ location_area.mapping_index[i] = area_id_multiple
               => \A a \in Range(area_load.areas) :
                      Intersects(grid(i), a.geo) => Cardinality(EntriesOf(i, a.id)) = 1


\* C29: the valid rows of a load are given ids that start at 1 or above and
\* increase with the row number, each distinct from the ids before it, and
\* none of them is 0 (no area) or 65535 (multiple areas)
C29_FreshAreaIds ==
    \A j \in 1..Len(area_load.areas) :
        /\ area_load.areas[j].id \notin { 0, area_id_multiple }
        /\ \A k \in 1..(j - 1) : area_load.areas[k].id < area_load.areas[j].id

\* C30: for a location with lat in [-90, 90] and lon in [-180, 180] an
\* initialized service reads mapping_index_ at an index in [0, 64799]
C30_GridIndexInRange ==
    (/\ query.op = "get_area"
     /\ location_area.initialized
     /\ query.l.lat \in (-90 * CoordUnits)..(90 * CoordUnits)
     /\ query.l.lon \in (-180 * CoordUnits)..(180 * CoordUnits))
        => ConsultedCell \in 0..(grid_size - 1)

====
